---- MODULE Spec2Model ----
(***************************************************************************)
(* Job orchestration engine of extratorDeAudio:                            *)
(*   internal/handlers/handlers.go   registry (a.jobs, a.subs under a.mu), *)
(*                                   triggers, workers, broadcast, reaper  *)
(*   internal/extractor/extractor.go the ffmpeg / whisper-cli adapters     *)
(* Every critical section of a.mu is one atomic action; everything a       *)
(* goroutine does between two critical sections or two socket writes that   *)
(* touches no shared state is folded into the next action.                 *)
(***************************************************************************)
EXTENDS Integers, Sequences, FiniteSets, TLC

(* ---------------------------------------------------------------- bounds *)
\* trigger requests (GET /extract/{id}, GET /transcribe/{id}) issued in a run
MaxTriggers == 3
\* the clock runs from 0 to MaxTime
MaxTime == 2
\* out_time_ms lines ffmpeg emits in one run; ticker ticks in one transcription
MaxLines == 1
MaxTicks == 1
\* ticker ticks in the one long transcription of SpecProgress
ManyTicks == 14
ManyLines == 2
\* events a client remembers of those it received
InboxWindow == 1
\* trigger requests in the runs with an observer, with two, with the sweeps
ObsTriggers == 2
FanoutTriggers == 1
ReaperTriggers == 2
ArgsCalls == 2
ProgressTriggers == 2

Reqs == 1..MaxTriggers
JobIds == {"j1", "j2"}
Conns == {"c1", "c2"}
Stages == {"extraction", "transcription"}
\* (interval, ttl) pairs StartCleanupLoop is called with
CleanupParams == {<<1, 1>>, <<1, 2>>, <<0, 1>>, <<1, 0>>}
\* probed duration in seconds (0: the probe failed) and elapsed seconds reported
Durations == {0, 100}
ElapsedSeconds == {-5, 29, 50, 250}
\* the model path NewApp is given
ConfiguredModel == "ggml-base.bin"

(* ------------------------------------------------------- models/job.go *)
StatusNotStarted == "not_started"
StatusUploaded == "uploaded"
StatusQueued == "queued"
StatusProcessing == "processing"
StatusCompleted == "completed"
StatusFailed == "failed"

VARIABLES
  now,      \* time.Now()
  ids,      \* job ids newID() has issued (never issued twice)
  jobs,     \* a.jobs: job id -> ExtractionJob
  subs,     \* a.subs: job id -> set of connections
  files,    \* paths that exist on disk
  task,     \* trigger request r and the worker goroutine it spawns
  conn,     \* websocket connection c: the jobWS handler and its client
  reaper,   \* StartCleanupLoop's goroutine and cleanup's locals
  whisperModel  \* Service.whisperModel, as given to NewApp

vars == <<now, ids, jobs, subs, files, task, conn, reaper, whisperModel>>

(* ---------------------------------------------------------------- errors *)
(* An error text is the sequence of the fragments fmt.Errorf joins; the    *)
(* empty text is the empty sequence.                                       *)
NoError == <<>>
ErrDeadlineExceeded == <<"context deadline exceeded">>
ErrCanceled == <<"context canceled">>

(* ----------------------------------------------------------------- paths *)
InputPath(id) == "uploads/" \o id \o "_video"
OutputName(jobID, format) == jobID \o "." \o format
OutputPathOf(id) == "outputs/" \o OutputName(id, "mp3")
TranscriptBase(id) == "outputs/" \o id \o "_transcript"
TXTPathOf(id) == TranscriptBase(id) \o ".txt"
SRTPathOf(id) == TranscriptBase(id) \o ".srt"

(* The job created by upload.  The fields that never change after upload   *)
(* (ID, InputFileName, InputPath, Format, Quality, CreatedAt) are functions *)
(* of the id; OutputName and Transcript*Name are the base names of the     *)
(* paths and are written together with them.                               *)
NewJob(t) ==
  [Status |-> StatusUploaded, Progress |-> 0, Error |-> NoError,
   OutputPath |-> "",
   TranscriptStatus |-> StatusNotStarted, TranscriptProgress |-> 0,
   TranscriptError |-> NoError, TranscriptTXTPath |-> "", TranscriptSRTPath |-> "",
   UpdatedAt |-> t]

(* ---------------------------------------------------------------- events *)
ProgressEvent(id, stage, status, progress, err, dl, txt, srt) ==
  [ID |-> id, Stage |-> stage, Status |-> status, Progress |-> progress,
   Error |-> err, DownloadURL |-> dl, TranscriptTXTURL |-> txt,
   TranscriptSRTURL |-> srt]

NoEvent == ProgressEvent("", "", "", 0, NoError, "", "", "")

DownloadURL(id) == "/download/" \o id
TranscriptTXTURL(id) == "/transcript/" \o id \o "?format=txt"
TranscriptSRTURL(id) == "/transcript/" \o id \o "?format=srt"

downloadURLForJob(id, job) ==
  IF job.Status = StatusCompleted THEN DownloadURL(id) ELSE ""

transcriptTXTURLForJob(id, job) ==
  IF job.TranscriptStatus = StatusCompleted THEN TranscriptTXTURL(id) ELSE ""

transcriptSRTURLForJob(id, job) ==
  IF job.TranscriptStatus = StatusCompleted THEN TranscriptSRTURL(id) ELSE ""

currentProgressEvent(id, job) ==
  IF job.TranscriptStatus \in
       {StatusQueued, StatusProcessing, StatusCompleted, StatusFailed}
  THEN ProgressEvent(id, "transcription", job.TranscriptStatus,
                     job.TranscriptProgress, job.TranscriptError,
                     downloadURLForJob(id, job),
                     transcriptTXTURLForJob(id, job),
                     transcriptSRTURLForJob(id, job))
  ELSE ProgressEvent(id, "extraction", job.Status, job.Progress, job.Error,
                     downloadURLForJob(id, job), "", "")

(* ------------------------------------------------------------- responses *)
Response(code, status, dl, txt, srt) ==
  [code |-> code, status |-> status, download_url |-> dl,
   transcript_txt_url |-> txt, transcript_srt_url |-> srt]

NoResponse == Response(0, "", "", "", "")

(* -------------------------------------------------------------- registry *)
getJob(id) ==
  IF id \in DOMAIN jobs THEN [ok |-> TRUE, job |-> jobs[id]]
  ELSE [ok |-> FALSE, job |-> NewJob(0)]

\* updated is fn applied to the job the registry holds
updateJob(id, updated) ==
  IF id \in DOMAIN jobs THEN [jobs EXCEPT ![id] = updated] ELSE jobs

(* ------------------------------------------------------------------ init *)
NewTask ==
  [pc |-> "new", job |-> "", stage |-> "", resp |-> NoResponse,
   conns |-> <<>>, evt |-> NoEvent, ret |-> "",
   outputPath |-> "", ctxErr |-> NoError, proc |-> "none", duration |-> 0,
   lines |-> 0, progress |-> 0, format |-> <<>>, quality |-> <<>>,
   args |-> <<>>, currentSeconds |-> <<>>, percent |-> <<>>]

\* inbox: the events the client remembers; runs: beside each of them, the
\* request whose run it reports (the events themselves carry no such number)
NewConn ==
  [pc |-> "new", job |-> "", snap |-> NoEvent, link |-> "none",
   inbox |-> <<>>, runs |-> <<>>, snapRun |-> 0]

ConnOrder == <<"c1", "c2">>

Init ==
  /\ now = 0
  /\ ids = {}
  /\ jobs = << >>
  /\ subs = [j \in JobIds |-> {}]
  /\ files = {}
  /\ task = [r \in Reqs |-> NewTask]
  /\ conn = [c \in Conns |-> NewConn]
  /\ reaper = [pc |-> "init", interval |-> 0, ttl |-> 0, cutoff |-> 0,
               nextTick |-> 0, oldJobs |-> {}, ctx |-> "live"]
  /\ whisperModel = ConfiguredModel

Serving == reaper.pc # "init"

(* ----------------------------------------------------------------- clock *)
Tick ==
  /\ now < MaxTime
  /\ now' = now + 1
  /\ UNCHANGED <<ids, jobs, subs, files, task, conn, reaper, whisperModel>>

(* ---------------------------------------------------------------- upload *)
upload(id) ==
  /\ Serving
  /\ id \notin ids
  /\ ids' = ids \cup {id}
  /\ files' = files \cup {InputPath(id)}
  /\ jobs' = [j \in DOMAIN jobs \cup {id} |->
                IF j = id THEN NewJob(now) ELSE jobs[j]]
  /\ UNCHANGED <<now, subs, task, conn, reaper, whisperModel>>

(* ------------------------------------------------------ goroutine frames *)
\* the goroutine has returned: its locals are gone
Returned(t) ==
  [NewTask EXCEPT !.pc = "done", !.job = t.job, !.stage = t.stage,
                  !.resp = t.resp]

\* broadcast returns to its caller
BroadcastDone(t) ==
  IF t.ret = "done" THEN Returned(t)
  ELSE [t EXCEPT !.conns = <<>>, !.pc = t.ret, !.ret = "", !.evt = NoEvent,
                 !.currentSeconds = <<>>, !.percent = <<>>]

\* variant: broadcast returns after the first subscriber of its list
Advance_FirstOnly(t) == BroadcastDone(t)

\* the task after one subscriber of its list has been dealt with
Advance(t) ==
  IF Len(t.conns) > 1
  THEN [t EXCEPT !.conns = Tail(@), !.pc = "bc_write"]
  ELSE BroadcastDone(t)

\* the caller of broadcast(jobID, evt), to continue at ret
Broadcasting(t, evt, ret) ==
  [t EXCEPT !.pc = "bc_snapshot", !.evt = evt, !.ret = ret]

(* --------------------------------------------------------------- triggers *)
\* request slots are used in order, each once
NextRequest(r) ==
  /\ Serving
  /\ task[r].pc = "new"
  /\ \A q \in Reqs : q < r => task[q].pc # "new"

\* variant: a queued extraction is not seen as active
ExtractionAlreadyActive_OnlyProcessing(job) ==
  job.Status \in {StatusProcessing}

\* case models.StatusProcessing, models.StatusQueued
ExtractionAlreadyActive(job) ==
  job.Status \in {StatusProcessing, StatusQueued}

\* variant: a transcription in progress is not seen as active
TranscriptionAlreadyActive_OnlyQueued(job) ==
  job.TranscriptStatus \in {StatusQueued}

\* case models.StatusQueued, models.StatusProcessing
TranscriptionAlreadyActive(job) ==
  job.TranscriptStatus \in {StatusQueued, StatusProcessing}

\* variant: only an extraction in flight is in the way of a transcription
ExtractionNotCompleted_OnlyInFlight(job) ==
  job.Status \in {StatusQueued, StatusProcessing}

\* variant: a failed extraction is no obstacle to a transcription
ExtractionNotCompleted_FailedAllowed(job) ==
  job.Status \notin {StatusCompleted, StatusFailed}

\* if job.Status != models.StatusCompleted
ExtractionNotCompleted(job) ==
  job.Status # StatusCompleted

\* variant: a completed extraction is not told from one that never ran
ExtractionIsCompleted_Overlooked(job) == FALSE

\* case models.StatusCompleted of startExtraction
ExtractionIsCompleted(job) == job.Status = StatusCompleted

\* variant: the answer names no download
ExtractionAlreadyCompleted_NoURL(id) ==
  Response(200, "already_completed", "", "", "")

\* the answers to a trigger on a completed stage
ExtractionAlreadyCompleted(id) ==
  Response(200, "already_completed", DownloadURL(id), "", "")

TranscriptionAlreadyCompleted(id) ==
  Response(200, "transcription_already_completed", "",
           TranscriptTXTURL(id), TranscriptSRTURL(id))

\* variant: the trigger marks the job as processing at once
ExtractionQueued_AsProcessing(job, t) ==
  [job EXCEPT !.Status = StatusProcessing, !.Progress = 1, !.Error = NoError,
              !.TranscriptStatus = StatusNotStarted,
              !.TranscriptProgress = 0, !.TranscriptError = NoError,
              !.TranscriptTXTPath = "", !.TranscriptSRTPath = "",
              !.UpdatedAt = t]

ExtractionQueued(job, t) ==
  [job EXCEPT !.Status = StatusQueued, !.Progress = 1, !.Error = NoError,
              !.TranscriptStatus = StatusNotStarted,
              !.TranscriptProgress = 0, !.TranscriptError = NoError,
              !.TranscriptTXTPath = "", !.TranscriptSRTPath = "",
              !.UpdatedAt = t]

\* variant: the error of the previous run is kept
TranscriptionQueued_ErrorKept(job, t) ==
  [job EXCEPT !.TranscriptStatus = StatusQueued, !.TranscriptProgress = 1,
              !.UpdatedAt = t]

TranscriptionQueued(job, t) ==
  [job EXCEPT !.TranscriptStatus = StatusQueued, !.TranscriptProgress = 1,
              !.TranscriptError = NoError, !.UpdatedAt = t]

\* the critical section of startExtraction and what follows a rejection
startExtraction(r, id) ==
  /\ NextRequest(r)
  /\ UNCHANGED <<now, ids, subs, files, conn, reaper, whisperModel>>
  /\ LET me == [task[r] EXCEPT !.job = id, !.stage = "extraction"] IN
     IF id \notin DOMAIN jobs
     THEN /\ task' = [task EXCEPT ![r] =
                 [me EXCEPT !.pc = "done",
                            !.resp = Response(404, "not_found", "", "", "")]]
          /\ UNCHANGED jobs
     ELSE IF ExtractionAlreadyActive(jobs[id])
     THEN /\ task' = [task EXCEPT ![r] =
                 [me EXCEPT !.pc = "done",
                            !.resp = Response(202, "already_processing",
                                              "", "", "")]]
          /\ UNCHANGED jobs
     ELSE IF ExtractionIsCompleted(jobs[id])
     THEN /\ task' = [task EXCEPT ![r] =
                 [me EXCEPT !.pc = "done",
                            !.resp = ExtractionAlreadyCompleted(id)]]
          /\ UNCHANGED jobs
     ELSE /\ jobs' = [jobs EXCEPT ![id] = ExtractionQueued(jobs[id], now)]
          /\ task' = [task EXCEPT ![r] =
                 Broadcasting(me, ProgressEvent(id, "extraction",
                                StatusQueued, 1, NoError, "", "", ""),
                              "spawn")]

\* the critical section of startTranscription and what follows a rejection
startTranscription(r, id) ==
  /\ NextRequest(r)
  /\ UNCHANGED <<now, ids, subs, files, conn, reaper, whisperModel>>
  /\ LET me == [task[r] EXCEPT !.job = id, !.stage = "transcription"] IN
     IF id \notin DOMAIN jobs
     THEN /\ task' = [task EXCEPT ![r] =
                 [me EXCEPT !.pc = "done",
                            !.resp = Response(404, "not_found", "", "", "")]]
          /\ UNCHANGED jobs
     ELSE IF ExtractionNotCompleted(jobs[id])
     THEN /\ task' = [task EXCEPT ![r] =
                 [me EXCEPT !.pc = "done",
                            !.resp = Response(409, "conflict", "", "", "")]]
          /\ UNCHANGED jobs
     ELSE IF TranscriptionAlreadyActive(jobs[id])
     THEN /\ task' = [task EXCEPT ![r] =
                 [me EXCEPT !.pc = "done",
                            !.resp = Response(202,
                                       "transcription_already_processing",
                                       "", "", "")]]
          /\ UNCHANGED jobs
     ELSE IF jobs[id].TranscriptStatus = StatusCompleted
     THEN /\ task' = [task EXCEPT ![r] =
                 [me EXCEPT !.pc = "done",
                            !.resp = TranscriptionAlreadyCompleted(id)]]
          /\ UNCHANGED jobs
     ELSE /\ jobs' = [jobs EXCEPT ![id] = TranscriptionQueued(jobs[id], now)]
          /\ task' = [task EXCEPT ![r] =
                 Broadcasting(me, ProgressEvent(id, "transcription",
                                StatusQueued, 1, NoError, "", "", ""),
                              "spawn")]

\* go a.runExtraction(jobID) / go a.runTranscription(jobID), then respondJSON
spawn(r) ==
  /\ task[r].pc = "spawn"
  /\ task' = [task EXCEPT ![r] =
        [@ EXCEPT !.pc = IF task[r].stage = "extraction" THEN "x_getJob"
                         ELSE "t_getJob",
                  !.ret = "",
                  !.evt = NoEvent,
                  !.resp = IF task[r].stage = "extraction"
                           THEN Response(202, "started", "", "", "")
                           ELSE Response(202, "transcription_started",
                                         "", "", "")]]
  /\ UNCHANGED <<now, ids, jobs, subs, files, conn, reaper, whisperModel>>

(* -------------------------------------------------------------- broadcast *)
RECURSIVE Orders(_)
\* the orders in which `for c := range a.subs[jobID]` can visit a set
Orders(S) ==
  IF S = {} THEN {<<>>}
  ELSE UNION {{<<c>> \o o : o \in Orders(S \ {c})} : c \in S}

\* a.mu.RLock(); copy a.subs[jobID]; a.mu.RUnlock()
broadcast_snapshot(r) ==
  /\ task[r].pc = "bc_snapshot"
  /\ \E o \in Orders(subs[task[r].job]) :
       task' = [task EXCEPT ![r] =
          IF o = <<>> THEN BroadcastDone(@)
          ELSE [@ EXCEPT !.pc = "bc_write", !.conns = o]]
  /\ UNCHANGED <<now, ids, jobs, subs, files, conn, reaper, whisperModel>>

\* what the peer of a connection has seen: the events written to it, of which
\* the last InboxWindow are kept (<<>>: nothing was written yet)
Received(inbox, evt) ==
  IF Len(inbox) < InboxWindow THEN Append(inbox, evt)
  ELSE Append(Tail(inbox), evt)

\* c.WriteJSON(evt) returns an error on a connection that is closed or whose
\* peer is gone, and does not return while the peer does not read
WriteFails(c) == conn[c].link \in {"gone", "closed"}
WriteBlocks(c) == conn[c].link = "stalled"

broadcast_write(r) ==
  /\ task[r].pc = "bc_write"
  /\ LET c == Head(task[r].conns) IN
       /\ ~WriteBlocks(c)
       /\ IF WriteFails(c)
          THEN /\ task' = [task EXCEPT ![r].pc = "bc_evict"]
               /\ UNCHANGED conn
          ELSE /\ conn' = [conn EXCEPT ![c].inbox = Received(@, task[r].evt),
                                       ![c].runs = Received(@, r)]
               /\ task' = [task EXCEPT ![r] = Advance(@)]
  /\ UNCHANGED <<now, ids, jobs, subs, files, reaper, whisperModel>>

\* variant: the loop over the subscribers ends at the first failed write
broadcast_evict_Abort(r) ==
  /\ task[r].pc = "bc_evict"
  /\ LET c == Head(task[r].conns) IN
       /\ subs' = [subs EXCEPT ![task[r].job] = @ \ {c}]
       /\ conn' = [conn EXCEPT ![c].link = "closed"]
       /\ task' = [task EXCEPT ![r] = BroadcastDone(@)]
  /\ UNCHANGED <<now, ids, jobs, files, reaper, whisperModel>>

\* a.mu.Lock(); delete(a.subs[jobID], c); a.mu.Unlock(); c.Close()
broadcast_evict(r) ==
  /\ task[r].pc = "bc_evict"
  /\ LET c == Head(task[r].conns) IN
       /\ subs' = [subs EXCEPT ![task[r].job] = @ \ {c}]
       /\ conn' = [conn EXCEPT ![c].link = "closed"]
       /\ task' = [task EXCEPT ![r] = Advance(@)]
  /\ UNCHANGED <<now, ids, jobs, files, reaper, whisperModel>>

(* ------------------------------------------------------------------ jobWS *)
\* the request was accepted: it changed the registry and starts a run
Accepted(t) ==
  /\ t.pc # "new"
  /\ t.pc = "done" => t.resp.status \in {"started", "transcription_started"}

\* the newest request for the job that was accepted (0: none): the run whose
\* state, or a later state of which, a reader of the registry sees
LatestRun(id) ==
  LET accepted == {r \in Reqs : task[r].job = id /\ Accepted(task[r])} IN
    IF accepted = {} THEN 0
    ELSE CHOOSE r \in accepted : \A q \in accepted : q <= r

NextConn(c) ==
  /\ Serving
  /\ conn[c].pc = "new"
  /\ \A i, k \in 1..Len(ConnOrder) :
       (ConnOrder[k] = c /\ i < k) => conn[ConnOrder[i]].pc # "new"

\* getJob, then Upgrade.  The clone is kept as the event built from it.
jobWS_open(c, id) ==
  /\ NextConn(c)
  /\ conn' = [conn EXCEPT ![c] =
        IF getJob(id).ok
        THEN [@ EXCEPT !.pc = "upgraded", !.job = id, !.link = "open",
                       !.snap = currentProgressEvent(id, getJob(id).job),
                       !.snapRun = LatestRun(id)]
        ELSE [@ EXCEPT !.pc = "done", !.job = id]]
  /\ UNCHANGED <<now, ids, jobs, subs, files, task, reaper, whisperModel>>

\* variant: the snapshot is written before a.mu is released
jobWS_register_WriteUnderLock(c) ==
  /\ conn[c].pc = "upgraded"
  /\ subs' = [subs EXCEPT ![conn[c].job] = @ \cup {c}]
  /\ conn' = [conn EXCEPT ![c].pc = "reading", ![c].snap = NoEvent,
                          ![c].snapRun = 0,
                          ![c].inbox = Received(@, conn[c].snap),
                          ![c].runs = Received(@, conn[c].snapRun)]
  /\ UNCHANGED <<now, ids, jobs, files, task, reaper, whisperModel>>

\* a.mu.Lock(); a.subs[jobID][conn] = struct{}{}; a.mu.Unlock()
jobWS_register(c) ==
  /\ conn[c].pc = "upgraded"
  /\ subs' = [subs EXCEPT ![conn[c].job] = @ \cup {c}]
  /\ conn' = [conn EXCEPT ![c].pc = "registered"]
  /\ UNCHANGED <<now, ids, jobs, files, task, reaper, whisperModel>>

\* variant: job is the record of the registry, not a copy of it
jobWS_snapshot_LiveRecord(c) ==
  /\ conn[c].pc = "registered"
  /\ ~WriteBlocks(c)
  /\ conn' = [conn EXCEPT ![c].pc = "reading", ![c].snap = NoEvent,
                          ![c].snapRun = 0,
                          ![c].inbox =
                             IF WriteFails(c) \/ ~getJob(conn[c].job).ok THEN @
                             ELSE Received(@, currentProgressEvent(conn[c].job,
                                                getJob(conn[c].job).job)),
                          ![c].runs =
                             IF WriteFails(c) \/ ~getJob(conn[c].job).ok THEN @
                             ELSE Received(@, LatestRun(conn[c].job))]
  /\ UNCHANGED <<now, ids, jobs, subs, files, task, reaper, whisperModel>>

\* _ = conn.WriteJSON(currentProgressEvent(job))
jobWS_snapshot(c) ==
  /\ conn[c].pc = "registered"
  /\ ~WriteBlocks(c)
  /\ conn' = [conn EXCEPT ![c].pc = "reading", ![c].snap = NoEvent,
                          ![c].snapRun = 0,
                          ![c].inbox = IF WriteFails(c) THEN @
                                       ELSE Received(@, conn[c].snap),
                          ![c].runs = IF WriteFails(c) THEN @
                                      ELSE Received(@, conn[c].snapRun)]
  /\ UNCHANGED <<now, ids, jobs, subs, files, task, reaper, whisperModel>>

\* ReadMessage returns an error; delete(a.subs[jobID], conn); conn.Close()
jobWS_unregister(c) ==
  /\ conn[c].pc = "reading"
  /\ conn[c].link \in {"gone", "closed"}
  /\ subs' = [subs EXCEPT ![conn[c].job] = @ \ {c}]
  /\ conn' = [conn EXCEPT ![c] = [NewConn EXCEPT !.pc = "done",
                                                 !.link = "closed"]]
  /\ UNCHANGED <<now, ids, jobs, files, task, reaper, whisperModel>>

\* the client stops reading: writes to it no longer return.  Nothing is
\* written to a connection before it is registered, so a client that stalls
\* or leaves earlier is seen as one that does so right after.
clientStall(c) ==
  /\ conn[c].pc \in {"registered", "reading"}
  /\ conn[c].link = "open"
  /\ conn' = [conn EXCEPT ![c].link = "stalled"]
  /\ UNCHANGED <<now, ids, jobs, subs, files, task, reaper, whisperModel>>

\* the client disconnects
clientGone(c) ==
  /\ conn[c].pc \in {"registered", "reading"}
  /\ conn[c].link \in {"open", "stalled"}
  /\ conn' = [conn EXCEPT ![c].link = "gone"]
  /\ UNCHANGED <<now, ids, jobs, subs, files, task, reaper, whisperModel>>

(* ---------------------------------------------------------- runExtraction *)
ExtractionStarted(job, path, t) ==
  [job EXCEPT !.Status = StatusProcessing, !.OutputPath = path,
              !.UpdatedAt = t]

\* variant: the progress never falls below what the record holds
ExtractionProgress_RunningMax(job, percent, t) ==
  [job EXCEPT !.Status = StatusProcessing,
              !.Progress = IF percent > @ THEN percent ELSE @,
              !.UpdatedAt = t]

ExtractionProgress(job, percent, t) ==
  [job EXCEPT !.Status = StatusProcessing, !.Progress = percent,
              !.UpdatedAt = t]

\* variant: the last update leaves the status as it is
ExtractionCompleted_StatusKept(job, t) ==
  [job EXCEPT !.Progress = 100, !.Error = NoError, !.UpdatedAt = t]

ExtractionCompleted(job, t) ==
  [job EXCEPT !.Status = StatusCompleted, !.Progress = 100,
              !.Error = NoError, !.UpdatedAt = t]

\* variant: the error text is not stored
ExtractionFailed_NoText(job, err, t) ==
  [job EXCEPT !.Status = StatusFailed, !.UpdatedAt = t]

ExtractionFailed(job, err, t) ==
  [job EXCEPT !.Status = StatusFailed, !.Error = err, !.UpdatedAt = t]

\* if percent < 1 { percent = 1 }
AtLeastOne(percent) == IF percent < 1 THEN 1 ELSE percent

\* updateJob, then broadcast, of failJob
\* variant: the worker starts over after a failure
failJob_ThenRetry(r, t, err) ==
  /\ jobs' = updateJob(t.job,
                 ExtractionFailed(getJob(t.job).job, err, now))
  /\ task' = [task EXCEPT ![r] =
        Broadcasting(t, ProgressEvent(t.job, "extraction", StatusFailed, 0,
                                      err, "", "", ""), "x_getJob")]

failJob(r, t, err) ==
  /\ jobs' = updateJob(t.job,
                 ExtractionFailed(getJob(t.job).job, err, now))
  /\ task' = [task EXCEPT ![r] =
        Broadcasting(t, ProgressEvent(t.job, "extraction", StatusFailed, 0,
                                      err, "", "", ""), "done")]

\* the callback runExtraction hands to ExtractAudio; percent is its argument
\* while the call lasts
extractionCallback(r, t, percent, ret) ==
  /\ jobs' = updateJob(t.job,
                 ExtractionProgress(getJob(t.job).job, AtLeastOne(percent), now))
  /\ task' = [task EXCEPT ![r] =
        Broadcasting([t EXCEPT !.percent = <<percent>>],
                     ProgressEvent(t.job, "extraction", StatusProcessing,
                                      AtLeastOne(percent), NoError,
                                      "", "", ""), ret)]

runExtraction_getJob(r) ==
  /\ task[r].pc = "x_getJob"
  /\ task' = [task EXCEPT ![r] =
        IF getJob(@.job).ok THEN [@ EXCEPT !.pc = "x_prepare"]
        ELSE Returned(@)]
  /\ UNCHANGED <<now, ids, jobs, subs, files, conn, reaper, whisperModel>>

\* os.MkdirAll, then the first updateJob
runExtraction_prepare(r) ==
  /\ task[r].pc = "x_prepare"
  /\ \E mkdirOK \in BOOLEAN :
       IF mkdirOK
       THEN /\ jobs' = updateJob(task[r].job,
                  ExtractionStarted(getJob(task[r].job).job, OutputPathOf(task[r].job), now))
            /\ task' = [task EXCEPT ![r].pc = "x_probe"]
       ELSE failJob(r, task[r],
                    <<"failed to create outputs dir: ", "mkdir failed">>)
  /\ UNCHANGED <<now, ids, subs, files, conn, reaper, whisperModel>>

(* ----------------------------------------------------------- ExtractAudio *)
\* variant: the ratio is not cut at 1
Percent_NoUpperClamp(elapsed, duration) ==
  IF elapsed < 0 THEN 0
  ELSE (elapsed * 100) \div duration

(* float64 arithmetic on the values the progress computation meets: a     *)
(* value is kept as three limbs of 18 binary digits and a scale.            *)
Limb == 2^18

RECURSIVE LeadingZeros(_, _)
\* the zeros after the point before the first 1 of r/d in binary, 0 < r < d
LeadingZeros(r, d) ==
  IF 2 * r >= d THEN 0 ELSE 1 + LeadingZeros(2 * r, d)

\* a float64 between 0 and 128: (a * Limb^2 + b * Limb + c) / 2^(54 + z),
\* with the carries of b and c taken up
Carried(a, b, c, z) ==
  LET b1 == b + c \div Limb IN
    [a |-> a + b1 \div Limb, b |-> b1 % Limb, c |-> c % Limb, z |-> z]

\* currentSeconds / duration in float64, for whole seconds
\* 0 < elapsed < duration < 2^13: the quotient's first 54 binary digits from
\* its first 1 are a, b and c; the last of them and what follows decide the
\* rounding of the 53 kept ones (to nearest, ties to even)
Float64Div(elapsed, duration) ==
  LET z == LeadingZeros(elapsed, duration)
      r0 == elapsed * 2^z
      a == (r0 * Limb) \div duration
      r1 == (r0 * Limb) % duration
      b == (r1 * Limb) \div duration
      r2 == (r1 * Limb) % duration
      c == (r2 * Limb) \div duration
      r3 == (r2 * Limb) % duration
      guard == c % 2
      odd == (c \div 2) % 2
      up == guard = 1 /\ (r3 # 0 \/ odd = 1)
  IN Carried(a, b, c - guard + (IF up THEN 2 ELSE 0), z)

\* ratio * 100 in float64: the exact product has 60 or 61 binary digits in
\* this form, of which the last 7 or 8 are rounded away
Float64Mul100(ratio) ==
  LET exact == Carried(ratio.a * 100, ratio.b * 100, ratio.c * 100, ratio.z)
      t == IF exact.a >= 2^24 THEN 8 ELSE 7
      low == exact.c % 2^t
      half == 2^(t - 1)
      odd == (exact.c \div 2^t) % 2
      up == low > half \/ (low = half /\ odd = 1)
  IN Carried(exact.a, exact.b, exact.c - low + (IF up THEN 2^t ELSE 0), exact.z)

\* int(v): the digits before the point
Float64ToInt(v) == v.a \div 2^(18 + v.z)

\* ratio clamped to [0,1], int(ratio * 100); elapsed and duration are whole
\* seconds
Percent(elapsed, duration) ==
  IF elapsed <= 0 THEN 0
  ELSE IF elapsed >= duration THEN 100
  ELSE Float64ToInt(Float64Mul100(Float64Div(elapsed, duration)))

\* what ExtractAudio returns when cmd.Wait fails
ExtractWaitError(ctxErr, lastErrLine, waitErr) ==
  IF ctxErr = ErrCanceled THEN ctxErr
  ELSE IF lastErrLine # "" THEN <<"ffmpeg failed: ", lastErrLine>>
  ELSE <<"ffmpeg failed: ", waitErr>>

\* probeDuration (under ctx), the pipes, cb(0, "processing", ...)
ExtractAudio_probe(r) ==
  /\ task[r].pc = "x_probe"
  /\ \E d \in Durations :
       /\ task[r].ctxErr # NoError => d = 0
       /\ extractionCallback(r, [task[r] EXCEPT !.duration = d], 0, "x_start")
  /\ UNCHANGED <<now, ids, subs, files, conn, reaper, whisperModel>>

\* cmd.Start(); ffmpeg opens its input and, with -y, creates the output file;
\* without the input it writes nothing and exits with an error
ExtractAudio_start(r) ==
  /\ task[r].pc = "x_start"
  /\ \E started \in BOOLEAN :
       IF started /\ task[r].ctxErr = NoError
       THEN /\ task' = [task EXCEPT
                  ![r].pc = "x_scan",
                  ![r].proc = IF InputPath(task[r].job) \in files
                              THEN "running" ELSE "failing"]
            /\ files' = IF InputPath(task[r].job) \in files
                        THEN files \cup {OutputPathOf(task[r].job)}
                        ELSE files
            /\ UNCHANGED jobs
       ELSE /\ failJob(r, task[r],
                  <<"failed to start ffmpeg: ",
                    IF task[r].ctxErr # NoError THEN task[r].ctxErr[1]
                    ELSE "exec: not found">>)
            /\ UNCHANGED files
  /\ UNCHANGED <<now, ids, subs, conn, reaper, whisperModel>>

\* variant: without a probed duration the ratio is taken of 100 seconds
ExtractAudio_outTime_AssumedDuration(r, lineCap) ==
  /\ task[r].pc = "x_scan"
  /\ task[r].proc = "running"
  /\ task[r].lines < lineCap
  /\ \E e \in ElapsedSeconds :
       LET t == [task[r] EXCEPT !.lines = @ + 1] IN
       extractionCallback(r, [t EXCEPT !.currentSeconds = <<e>>],
                          Percent(e, 100), "x_scan")
  /\ UNCHANGED <<now, ids, subs, files, conn, reaper, whisperModel>>

\* a line out_time_ms=..., of at most lineCap such lines of a run
ExtractAudio_outTime(r, lineCap) ==
  /\ task[r].pc = "x_scan"
  /\ task[r].proc = "running"
  /\ task[r].lines < lineCap
  /\ \E e \in ElapsedSeconds :
       LET t == [task[r] EXCEPT !.lines = @ + 1] IN
       IF t.duration > 0
       THEN extractionCallback(r, [t EXCEPT !.currentSeconds = <<e>>],
                               Percent(e, t.duration), "x_scan")
       ELSE /\ task' = [task EXCEPT ![r] = t]
            /\ UNCHANGED jobs
  /\ UNCHANGED <<now, ids, subs, files, conn, reaper, whisperModel>>

\* the line progress=end
ExtractAudio_progressEnd(r) ==
  /\ task[r].pc = "x_scan"
  /\ task[r].proc = "running"
  /\ extractionCallback(r, [task[r] EXCEPT !.proc = "ending"], 100, "x_scan")
  /\ UNCHANGED <<now, ids, subs, files, conn, reaper, whisperModel>>

\* stdout is closed: the process has exited or has been killed
ExtractAudio_eof(r) ==
  /\ task[r].pc = "x_scan"
  /\ \E code \in {"exit0", "exit1"} :
       task' = [task EXCEPT ![r].pc = "x_wait",
                            ![r].proc = IF @ = "killed" THEN @
                                        ELSE IF @ = "failing" THEN "exit1"
                                        ELSE code]
  /\ UNCHANGED <<now, ids, jobs, subs, files, conn, reaper, whisperModel>>

\* cmd.Wait(); lastErrLine is read without synchronisation
ExtractAudio_wait(r) ==
  /\ task[r].pc = "x_wait"
  /\ IF task[r].proc = "exit0"
     THEN extractionCallback(r, task[r], 100, "x_complete")
     ELSE \E lastErrLine \in {"", "stderr line"} :
            failJob(r, task[r],
                    ExtractWaitError(task[r].ctxErr, lastErrLine,
                       IF task[r].proc = "killed" THEN "signal: killed"
                       ELSE "exit status 1"))
  /\ UNCHANGED <<now, ids, subs, files, conn, reaper, whisperModel>>

runExtraction_complete(r) ==
  /\ task[r].pc = "x_complete"
  /\ jobs' = updateJob(task[r].job,
                 ExtractionCompleted(getJob(task[r].job).job, now))
  /\ task' = [task EXCEPT ![r] =
        Broadcasting(@, ProgressEvent(@.job, "extraction", StatusCompleted,
                                      100, NoError, DownloadURL(@.job),
                                      "", ""), "done")]
  /\ UNCHANGED <<now, ids, subs, files, conn, reaper, whisperModel>>

(* ------------------------------------------------------- context deadline *)
\* where the worker's ctx is consulted later on: by the probe, by cmd.Start,
\* by the running child, by the select loop
CtxPcs == {"x_prepare", "x_probe", "x_start", "x_scan",
           "t_prepare", "t_begin", "t_start", "t_select"}

CtxLive(t) ==
  \/ t.pc \in CtxPcs
  \/ t.pc \in {"bc_snapshot", "bc_write", "bc_evict"} /\ t.ret \in CtxPcs

\* the 30 (45) minutes of context.WithTimeout are over: exec kills the child
ctxDeadline(r) ==
  /\ CtxLive(task[r])
  /\ task[r].ctxErr = NoError
  /\ task' = [task EXCEPT ![r].ctxErr = ErrDeadlineExceeded,
                          ![r].proc = IF @ \in {"running", "ending", "failing"}
                                      THEN "killed" ELSE @]
  /\ UNCHANGED <<now, ids, jobs, subs, files, conn, reaper, whisperModel>>

(* ------------------------------------------------------- runTranscription *)
TranscriptionStarted(job, txtPath, srtPath, t) ==
  [job EXCEPT !.TranscriptStatus = StatusProcessing,
              !.TranscriptProgress = 1, !.TranscriptError = NoError,
              !.TranscriptTXTPath = txtPath, !.TranscriptSRTPath = srtPath,
              !.UpdatedAt = t]

TranscriptionProgress(job, percent, t) ==
  [job EXCEPT !.TranscriptStatus = StatusProcessing,
              !.TranscriptProgress = percent, !.UpdatedAt = t]

TranscriptionCompleted(job, t) ==
  [job EXCEPT !.TranscriptStatus = StatusCompleted,
              !.TranscriptProgress = 100, !.TranscriptError = NoError,
              !.UpdatedAt = t]

TranscriptionFailed(job, err, t) ==
  [job EXCEPT !.TranscriptStatus = StatusFailed, !.TranscriptError = err,
              !.TranscriptProgress = 0, !.UpdatedAt = t]

\* updateJob, then broadcast, of failTranscription
failTranscription(r, t, err) ==
  /\ jobs' = updateJob(t.job,
                 TranscriptionFailed(getJob(t.job).job, err, now))
  /\ task' = [task EXCEPT ![r] =
        Broadcasting(t, ProgressEvent(t.job, "transcription", StatusFailed,
                                      0, err, "", "", ""), "done")]

\* the callback runTranscription hands to TranscribeAudio
transcriptionCallback(r, t, percent, ret) ==
  /\ jobs' = updateJob(t.job,
                 TranscriptionProgress(getJob(t.job).job, AtLeastOne(percent), now))
  /\ task' = [task EXCEPT ![r] =
        Broadcasting(t, ProgressEvent(t.job, "transcription",
                                      StatusProcessing, AtLeastOne(percent),
                                      NoError, "", "", ""), ret)]

runTranscription_getJob(r) ==
  /\ task[r].pc = "t_getJob"
  /\ task' = [task EXCEPT ![r] =
        IF getJob(@.job).ok
        THEN [@ EXCEPT !.pc = "t_prepare",
                       !.outputPath = getJob(task[r].job).job.OutputPath]
        ELSE Returned(@)]
  /\ UNCHANGED <<now, ids, jobs, subs, files, conn, reaper, whisperModel>>

\* the check of job.OutputPath, then the first updateJob
runTranscription_prepare(r) ==
  /\ task[r].pc = "t_prepare"
  /\ IF task[r].outputPath = ""
     THEN failTranscription(r, task[r],
             <<"arquivo de audio nao encontrado para transcricao">>)
     ELSE /\ jobs' = updateJob(task[r].job,
                TranscriptionStarted(getJob(task[r].job).job, TXTPathOf(task[r].job),
                                     SRTPathOf(task[r].job), now))
          /\ task' = [task EXCEPT ![r].pc = "t_begin"]
  /\ UNCHANGED <<now, ids, subs, files, conn, reaper, whisperModel>>

(* -------------------------------------------------------- TranscribeAudio *)
\* variant: the counter grows at every tick
NextTickerProgress_NoCap(progress) == progress + 7

\* if progress < 90 { progress += 7 }
NextTickerProgress(progress) ==
  IF progress < 90 THEN progress + 7 ELSE progress

\* the check of s.whisperModel, then cb(1, "processing", ...)
TranscribeAudio_begin(r) ==
  /\ task[r].pc = "t_begin"
  /\ IF whisperModel = ""
     THEN failTranscription(r, task[r],
                            <<"whisper model is not configured">>)
     ELSE transcriptionCallback(r, task[r], 1, "t_start")
  /\ UNCHANGED <<now, ids, subs, files, conn, reaper, whisperModel>>

\* cmd.Start(); progress := 5
TranscribeAudio_start(r) ==
  /\ task[r].pc = "t_start"
  /\ \E started \in BOOLEAN :
       IF started /\ task[r].ctxErr = NoError
       THEN /\ task' = [task EXCEPT
                  ![r].pc = "t_select",
                  ![r].proc = IF task[r].outputPath \in files
                              THEN "running" ELSE "failing",
                  ![r].progress = 5]
            /\ UNCHANGED jobs
       ELSE failTranscription(r, task[r],
               <<"failed to start whisper-cli: ",
                 IF task[r].ctxErr # NoError THEN task[r].ctxErr[1]
                 ELSE "exec: not found">>)
  /\ UNCHANGED <<now, ids, subs, files, conn, reaper, whisperModel>>

\* whisper-cli exits; on success it has written some of its two files, and
\* without its input audio it fails
whisperExit(r) ==
  /\ task[r].stage = "transcription"
  /\ task[r].proc \in {"running", "failing"}
  /\ \E made \in SUBSET {TXTPathOf(task[r].job), SRTPathOf(task[r].job)} :
       \/ /\ task[r].proc = "running"
          /\ task' = [task EXCEPT ![r].proc = "exit0"]
          /\ files' = files \cup made
       \/ /\ made = {}
          /\ task' = [task EXCEPT ![r].proc = "exit1"]
          /\ UNCHANGED files
  /\ UNCHANGED <<now, ids, jobs, subs, conn, reaper, whisperModel>>

\* case <-ctx.Done(): cmd.Process.Kill(); return ctx.Err()
TranscribeAudio_ctxDone(r) ==
  /\ task[r].pc = "t_select"
  /\ task[r].ctxErr # NoError
  /\ failTranscription(r, task[r], task[r].ctxErr)
  /\ UNCHANGED <<now, ids, subs, files, conn, reaper, whisperModel>>

\* case err := <-done
TranscribeAudio_done(r) ==
  /\ task[r].pc = "t_select"
  /\ task[r].proc \in {"exit0", "exit1", "killed"}
  /\ IF task[r].proc = "exit0"
     THEN transcriptionCallback(r, task[r], 100, "t_stat")
     ELSE \E logOut \in {"", "stderr line"} :
            failTranscription(r, task[r],
               <<"whisper-cli failed: ",
                 IF logOut # "" THEN logOut
                 ELSE IF task[r].proc = "killed" THEN "signal: killed"
                 ELSE "exit status 1">>)
  /\ UNCHANGED <<now, ids, subs, files, conn, reaper, whisperModel>>

\* case <-ticker.C
TranscribeAudio_tick(r, ticks) ==
  /\ task[r].pc = "t_select"
  /\ task[r].lines < ticks
  /\ LET t == [task[r] EXCEPT !.lines = @ + 1,
                              !.progress = NextTickerProgress(@)] IN
       transcriptionCallback(r, t, t.progress, "t_select")
  /\ UNCHANGED <<now, ids, subs, files, conn, reaper, whisperModel>>

\* variant: only the text file is looked for
runTranscription_stat_TXTOnly(r) ==
  /\ task[r].pc = "t_stat"
  /\ IF TXTPathOf(task[r].job) \notin files
     THEN failTranscription(r, task[r], <<"transcricao TXT nao foi gerada">>)
     ELSE /\ task' = [task EXCEPT ![r].pc = "t_complete"]
          /\ UNCHANGED jobs
  /\ UNCHANGED <<now, ids, subs, files, conn, reaper, whisperModel>>

\* os.Stat(txtPath), os.Stat(srtPath)
runTranscription_stat(r) ==
  /\ task[r].pc = "t_stat"
  /\ IF TXTPathOf(task[r].job) \notin files
     THEN failTranscription(r, task[r], <<"transcricao TXT nao foi gerada">>)
     ELSE IF SRTPathOf(task[r].job) \notin files
     THEN failTranscription(r, task[r], <<"transcricao SRT nao foi gerada">>)
     ELSE /\ task' = [task EXCEPT ![r].pc = "t_complete"]
          /\ UNCHANGED jobs
  /\ UNCHANGED <<now, ids, subs, files, conn, reaper, whisperModel>>

runTranscription_complete(r) ==
  /\ task[r].pc = "t_complete"
  /\ jobs' = updateJob(task[r].job,
                 TranscriptionCompleted(getJob(task[r].job).job, now))
  /\ task' = [task EXCEPT ![r] =
        Broadcasting(@, ProgressEvent(@.job, "transcription",
                                      StatusCompleted, 100, NoError, "",
                                      TranscriptTXTURL(@.job),
                                      TranscriptSRTURL(@.job)), "done")]
  /\ UNCHANGED <<now, ids, subs, files, conn, reaper, whisperModel>>

(* ---------------------------------------------------- codecAndQualityArgs *)
\* A Go string given to the adapter is the sequence of its characters.
FormatInputs ==
  {<<"m", "p", "3">>, <<"w", "a", "v">>, <<"a", "a", "c">>,
   <<"f", "l", "a", "c">>, <<"o", "g", "g">>, <<"M", "P", "3">>,
   <<" ", "w", "a", "v", " ">>, <<"O", "g", "g", "\n">>, <<>>,
   <<"o", "p", "u", "s">>, <<"m", "p", " ", "3">>}

QualityInputs ==
  {<<"l", "o", "w">>, <<"m", "e", "d", "i", "u", "m">>, <<"h", "i", "g", "h">>,
   <<"o", "r", "i", "g", "i", "n", "a", "l">>, <<"H", "I", "G", "H">>,
   <<" ", "l", "o", "w">>, <<>>, <<"b", "e", "s", "t">>}

\* unicode.IsSpace, for the characters of the inputs
IsSpace(c) == c \in {" ", "\t", "\n", "\r"}

RECURSIVE TrimLeft(_)
TrimLeft(s) ==
  IF s # <<>> /\ IsSpace(Head(s)) THEN TrimLeft(Tail(s)) ELSE s

RECURSIVE TrimRight(_)
TrimRight(s) ==
  IF s # <<>> /\ IsSpace(s[Len(s)])
  THEN TrimRight(SubSeq(s, 1, Len(s) - 1)) ELSE s

\* strings.TrimSpace
TrimSpace(s) == TrimRight(TrimLeft(s))

\* unicode.ToLower, for ASCII
LowerOf ==
  ("A" :> "a") @@ ("B" :> "b") @@ ("C" :> "c") @@ ("D" :> "d") @@
  ("E" :> "e") @@ ("F" :> "f") @@ ("G" :> "g") @@ ("H" :> "h") @@
  ("I" :> "i") @@ ("J" :> "j") @@ ("K" :> "k") @@ ("L" :> "l") @@
  ("M" :> "m") @@ ("N" :> "n") @@ ("O" :> "o") @@ ("P" :> "p") @@
  ("Q" :> "q") @@ ("R" :> "r") @@ ("S" :> "s") @@ ("T" :> "t") @@
  ("U" :> "u") @@ ("V" :> "v") @@ ("W" :> "w") @@ ("X" :> "x") @@
  ("Y" :> "y") @@ ("Z" :> "z")

\* strings.ToLower
ToLower(s) ==
  [i \in 1..Len(s) |-> IF s[i] \in DOMAIN LowerOf THEN LowerOf[s[i]] ELSE s[i]]

RECURSIVE Str(_)
\* the characters as one string value, as the switch compares it
Str(s) == IF s = <<>> THEN "" ELSE Head(s) \o Str(Tail(s))

\* variant: every format is passed through
codecAndQualityArgs_CopyOnly(format0, quality0) == <<"-codec:a", "copy">>

codecAndQualityArgs(format0, quality0) ==
  LET lowered == Str(ToLower(TrimSpace(format0)))
      quality == Str(ToLower(TrimSpace(quality0)))
      format == IF lowered = "" THEN "mp3" ELSE lowered
      args == <<"-f", format>>
  IN CASE format = "mp3" ->
            args \o <<"-codec:a", "libmp3lame">> \o
              (CASE quality = "low" -> <<"-b:a", "96k">>
                 [] quality = "high" -> <<"-b:a", "320k">>
                 [] quality = "original" -> <<"-q:a", "0">>
                 [] OTHER -> <<"-b:a", "192k">>)
       [] format = "wav" -> args \o <<"-codec:a", "pcm_s16le">>
       [] format = "aac" ->
            args \o <<"-codec:a", "aac">> \o
              (CASE quality = "low" -> <<"-b:a", "96k">>
                 [] quality = "high" -> <<"-b:a", "320k">>
                 [] quality = "original" -> <<"-b:a", "384k">>
                 [] OTHER -> <<"-b:a", "192k">>)
       [] format = "flac" ->
            args \o <<"-codec:a", "flac">> \o
              (IF quality = "high" \/ quality = "original"
               THEN <<"-compression_level", "12">>
               ELSE <<"-compression_level", "8">>)
       [] format = "ogg" ->
            args \o <<"-codec:a", "libvorbis">> \o
              (CASE quality = "low" -> <<"-qscale:a", "2">>
                 [] quality \in {"high", "original"} -> <<"-qscale:a", "8">>
                 [] OTHER -> <<"-qscale:a", "5">>)
       [] OTHER -> <<"-codec:a", "copy">>

\* ExtractAudio up to its argument list: the part codecAndQualityArgs gives
ExtractAudio_args(r, format, quality) ==
  /\ NextRequest(r)
  /\ task' = [task EXCEPT ![r] =
        [NewTask EXCEPT !.pc = "done", !.stage = "extraction",
                        !.format = format, !.quality = quality,
                        !.args = codecAndQualityArgs(format, quality)]]
  /\ UNCHANGED <<now, ids, jobs, subs, files, conn, reaper, whisperModel>>

(* ----------------------------------------------------------------- reaper *)
\* variant: an instant is before itself
Before_OrEqual(t, u) == t <= u

\* time.Time.Before
Before(t, u) == t < u

\* the copy of a job cleanup keeps: the paths it will remove
OldJob(id, job) ==
  [ID |-> id,
   paths |-> {InputPath(id), job.OutputPath, job.TranscriptTXTPath,
              job.TranscriptSRTPath} \ {""}]

\* does the sweep with this cutoff remove the job
Expired(job, cutoff) == Before(job.UpdatedAt, cutoff)

\* variant: only negative values switch the sweep off
StartCleanupLoop_ZeroAllowed(interval, ttl) ==
  /\ reaper.pc = "init"
  /\ reaper' = IF interval < 0 \/ ttl < 0
               THEN [reaper EXCEPT !.pc = "off"]
               ELSE [reaper EXCEPT !.pc = "wait", !.interval = interval,
                                   !.ttl = ttl, !.nextTick = now + interval]
  /\ UNCHANGED <<now, ids, jobs, subs, files, task, conn, whisperModel>>

StartCleanupLoop(interval, ttl) ==
  /\ reaper.pc = "init"
  /\ reaper' = IF interval <= 0 \/ ttl <= 0
               THEN [reaper EXCEPT !.pc = "off"]
               ELSE [reaper EXCEPT !.pc = "wait", !.interval = interval,
                                   !.ttl = ttl, !.nextTick = now + interval]
  /\ UNCHANGED <<now, ids, jobs, subs, files, task, conn, whisperModel>>

\* case <-ticker.C: cleanup(ttl) computes cutoff := time.Now().Add(-ttl)
cleanup_cutoff ==
  /\ reaper.pc = "wait"
  /\ now >= reaper.nextTick
  /\ reaper' = [reaper EXCEPT !.pc = "scan", !.cutoff = now - reaper.ttl,
                              !.nextTick = IF @ + reaper.interval > now
                                           THEN @ + reaper.interval ELSE now]
  /\ UNCHANGED <<now, ids, jobs, subs, files, task, conn, whisperModel>>

\* a.mu.Lock(); the loop over a.jobs; a.mu.Unlock()
cleanup_scan ==
  /\ reaper.pc = "scan"
  /\ LET old == {id \in DOMAIN jobs : Expired(jobs[id], reaper.cutoff)} IN
       /\ jobs' = [id \in DOMAIN jobs \ old |-> jobs[id]]
       /\ reaper' = [reaper EXCEPT
                       !.pc = IF old = {} THEN "wait" ELSE "remove",
                       !.oldJobs = {OldJob(id, jobs[id]) : id \in old}]
  /\ UNCHANGED <<now, ids, subs, files, task, conn, whisperModel>>

\* the os.Remove calls for one removed job; their errors are dropped
cleanup_remove ==
  /\ reaper.pc = "remove"
  /\ \E o \in reaper.oldJobs :
       /\ files' = files \ o.paths
       /\ reaper' = [reaper EXCEPT
                       !.oldJobs = @ \ {o},
                       !.pc = IF reaper.oldJobs = {o} THEN "wait"
                              ELSE "remove"]
  /\ UNCHANGED <<now, ids, jobs, subs, task, conn, whisperModel>>

\* main: the shutdown signal has arrived; cancel()
shutdown ==
  /\ reaper.pc # "init"
  /\ reaper.ctx = "live"
  /\ reaper' = [reaper EXCEPT !.ctx = "cancelled"]
  /\ UNCHANGED <<now, ids, jobs, subs, files, task, conn, whisperModel>>

\* case <-ctx.Done(): return.  With a tick pending as well, select takes
\* either case.
StartCleanupLoop_ctxDone ==
  /\ reaper.pc = "wait"
  /\ reaper.ctx = "cancelled"
  /\ reaper' = [reaper EXCEPT !.pc = "stopped"]
  /\ UNCHANGED <<now, ids, jobs, subs, files, task, conn, whisperModel>>

(* ------------------------------------------------------------------- next *)
\* the trigger of extraction and its worker, for the requests R and the jobs J
Extraction(R, J, lineCap) ==
  \/ \E r \in R, id \in J : startExtraction(r, id)
  \/ \E r \in R : spawn(r)
  \/ \E r \in R : broadcast_snapshot(r)
  \/ \E r \in R : runExtraction_getJob(r)
  \/ \E r \in R : runExtraction_prepare(r)
  \/ \E r \in R : ExtractAudio_probe(r)
  \/ \E r \in R : ExtractAudio_start(r)
  \/ \E r \in R : ExtractAudio_outTime(r, lineCap)
  \/ \E r \in R : ExtractAudio_progressEnd(r)
  \/ \E r \in R : ExtractAudio_eof(r)
  \/ \E r \in R : ExtractAudio_wait(r)
  \/ \E r \in R : runExtraction_complete(r)
  \/ \E r \in R : ctxDeadline(r)

\* the trigger of transcription and its worker
Transcription(R, J, ticks) ==
  \/ \E r \in R, id \in J : startTranscription(r, id)
  \/ \E r \in R : runTranscription_getJob(r)
  \/ \E r \in R : runTranscription_prepare(r)
  \/ \E r \in R : TranscribeAudio_begin(r)
  \/ \E r \in R : TranscribeAudio_start(r)
  \/ \E r \in R : whisperExit(r)
  \/ \E r \in R : TranscribeAudio_ctxDone(r)
  \/ \E r \in R : TranscribeAudio_done(r)
  \/ \E r \in R : TranscribeAudio_tick(r, ticks)
  \/ \E r \in R : runTranscription_stat(r)
  \/ \E r \in R : runTranscription_complete(r)

\* the observers C of the jobs J, and the deliveries to them
Observers(C, R, J) ==
  \/ \E r \in R : broadcast_write(r)
  \/ \E r \in R : broadcast_evict(r)
  \/ \E c \in C, id \in J : jobWS_open(c, id)
  \/ \E c \in C : jobWS_register(c)
  \/ \E c \in C : jobWS_snapshot(c)
  \/ \E c \in C : jobWS_unregister(c)
  \/ \E c \in C : clientStall(c)
  \/ \E c \in C : clientGone(c)

\* the clock and the sweeps
Reaper ==
  \/ Tick
  \/ cleanup_cutoff
  \/ cleanup_scan
  \/ cleanup_remove

\* main: StartCleanupLoop(ctx, 30*time.Minute, 24*time.Hour), in half hours
MainInterval == 1
MainTTL == 48

Main == StartCleanupLoop(MainInterval, MainTTL)

(* Spec: one job, its triggers and workers, before the first tick of the  *)
(* sweep and with no observer attached.                                    *)
Next ==
  \/ Main
  \/ upload("j1")
  \/ Extraction(Reqs, {"j1"}, MaxLines)
  \/ Transcription(Reqs, {"j1"}, MaxTicks)

Spec == Init /\ [][Next]_vars

(* SpecObs: one job and one observer, before the first tick of the sweep.  *)
NextObs ==
  \/ Main
  \/ upload("j1")
  \/ Extraction(1..ObsTriggers, {"j1"}, MaxLines)
  \/ Observers({"c1"}, 1..ObsTriggers, {"j1"})

SpecObs == Init /\ [][NextObs]_vars

(* SpecFanout: one extraction run observed by two connections.             *)
NextFanout ==
  \/ Main
  \/ upload("j1")
  \/ Extraction(1..FanoutTriggers, {"j1"}, MaxLines)
  \/ Observers(Conns, 1..FanoutTriggers, {"j1"})

SpecFanout == Init /\ [][NextFanout]_vars

(* SpecMarkers: one extraction run that reads several elapsed-time lines,  *)
(* watched by one connection.                                              *)
NextMarkers ==
  \/ Main
  \/ upload("j1")
  \/ Extraction(1..FanoutTriggers, {"j1"}, ManyLines)
  \/ Observers({"c1"}, 1..FanoutTriggers, {"j1"})

SpecMarkers == Init /\ [][NextMarkers]_vars

(* SpecLive: the run and the connection of SpecMarkers with one line of   *)
(* progress, where every goroutine that can take a step is scheduled, the  *)
(* process ends and the timer of the context fires.  The requests and what *)
(* the client does are left free.                                          *)
NextLive ==
  \/ Main
  \/ upload("j1")
  \/ Extraction(1..FanoutTriggers, {"j1"}, MaxLines)
  \/ Observers({"c1"}, 1..FanoutTriggers, {"j1"})

\* the goroutine of request r: the handler after the request arrived, then
\* the worker it starts
Goroutine(r) ==
  \/ spawn(r)
  \/ broadcast_snapshot(r)
  \/ broadcast_write(r)
  \/ broadcast_evict(r)
  \/ runExtraction_getJob(r)
  \/ runExtraction_prepare(r)
  \/ ExtractAudio_probe(r)
  \/ ExtractAudio_start(r)
  \/ ExtractAudio_eof(r)
  \/ ExtractAudio_wait(r)
  \/ runExtraction_complete(r)

FairLive ==
  /\ \A r \in 1..FanoutTriggers : WF_vars(Goroutine(r))
  /\ \A r \in 1..FanoutTriggers : WF_vars(ctxDeadline(r))
  /\ WF_vars(jobWS_register("c1"))
  /\ WF_vars(jobWS_snapshot("c1"))
  /\ WF_vars(jobWS_unregister("c1"))

SpecLive == Init /\ [][NextLive]_vars /\ FairLive

(* SpecSweep: two jobs that are uploaded and left alone, the clock and the *)
(* sweeps.                                                                 *)
NextSweep ==
  \/ \E p \in CleanupParams : StartCleanupLoop(p[1], p[2])
  \/ \E id \in JobIds : upload(id)
  \/ Reaper

SpecSweep == Init /\ [][NextSweep]_vars

(* SpecShutdown: the sweeps over idle jobs and the shutdown of main.  The   *)
(* goroutine of the loop is scheduled whenever it can take a step.         *)
NextShutdown ==
  \/ \E p \in CleanupParams : StartCleanupLoop(p[1], p[2])
  \/ \E id \in JobIds : upload(id)
  \/ Reaper
  \/ shutdown
  \/ StartCleanupLoop_ctxDone

FairShutdown ==
  /\ WF_vars(StartCleanupLoop_ctxDone)
  /\ WF_vars(cleanup_scan)
  /\ WF_vars(cleanup_remove)

SpecShutdown == Init /\ [][NextShutdown]_vars /\ FairShutdown

(* SpecArgs: calls of the adapter with any format and quality.             *)
NextArgs ==
  \/ Main
  \/ \E r \in 1..ArgsCalls, f \in FormatInputs, q \in QualityInputs :
       ExtractAudio_args(r, f, q)

SpecArgs == Init /\ [][NextArgs]_vars

(* SpecReaper: one job, its workers, the clock and the sweeps.             *)
NextReaper ==
  \/ \E p \in CleanupParams : StartCleanupLoop(p[1], p[2])
  \/ upload("j1")
  \/ Extraction(1..ReaperTriggers, {"j1"}, MaxLines)
  \/ Transcription(1..ReaperTriggers, {"j1"}, MaxTicks)
  \/ Reaper

SpecReaper == Init /\ [][NextReaper]_vars

(* SpecReaperObs: one job, one extraction run and one connection, with the *)
(* clock and the sweeps.                                                   *)
NextReaperObs ==
  \/ \E p \in CleanupParams : StartCleanupLoop(p[1], p[2])
  \/ upload("j1")
  \/ Extraction(1..FanoutTriggers, {"j1"}, MaxLines)
  \/ Observers({"c1"}, 1..FanoutTriggers, {"j1"})
  \/ Reaper

SpecReaperObs == Init /\ [][NextReaperObs]_vars

(* SpecProgress: one job taken through one extraction and one long        *)
(* transcription.                                                          *)
NextProgress ==
  \/ Main
  \/ upload("j1")
  \/ Extraction(1..ProgressTriggers, {"j1"}, MaxLines)
  \/ Transcription(1..ProgressTriggers, {"j1"}, ManyTicks)

SpecProgress == Init /\ [][NextProgress]_vars

(* ------------------------------------------------------------ properties *)
\* the worker of a request is between its spawn and its terminal registry
\* update (the update and the broadcast that follows it are one step)
Working(t) ==
  /\ t.pc \notin {"new", "spawn", "done"}
  /\ t.ret \notin {"spawn", "done"}

\* request r is handled in this step
Handled(r) == task[r].pc = "new" /\ task'[r].pc # "new"

\* the status of a stage of a job
StageStatus(job, stage) ==
  IF stage = "extraction" THEN job.Status ELSE job.TranscriptStatus

\* the request was turned away: nothing is published, no worker is started
TurnedAway(r) ==
  /\ task'[r].pc = "done"
  /\ task'[r].evt = NoEvent
  /\ task'[r].resp.status \notin {"started", "transcription_started"}
  /\ jobs' = jobs
  /\ subs' = subs
  /\ conn' = conn
  /\ files' = files

\* C1: for every job and stage, at most one worker is between its spawn and
\* its terminal registry update, however the trigger requests interleave.
C1_AtMostOneWorker ==
  \A id \in JobIds, s \in Stages :
    Cardinality({r \in Reqs : /\ task[r].job = id
                              /\ task[r].stage = s
                              /\ Working(task[r])}) <= 1

\* a later trigger of the same job and stage was answered while a worker runs
C1_Witness ==
  \E r, q \in Reqs :
    /\ r < q
    /\ Working(task[r])
    /\ task[q].job = task[r].job
    /\ task[q].stage = task[r].stage
    /\ task[q].pc = "done"
    /\ task[q].resp.status = "already_processing"

\* C2: a trigger for a stage that is queued or processing is rejected: the
\* job keeps every field, nothing is broadcast and no worker is spawned, for
\* startExtraction and for startTranscription.
C2_ActiveStageTriggerRejected ==
  [][\A r \in Reqs :
       (/\ Handled(r)
        /\ task'[r].job \in DOMAIN jobs
        /\ StageStatus(jobs[task'[r].job], task'[r].stage)
             \in {StatusQueued, StatusProcessing})
       => TurnedAway(r)]_vars

\* a transcription trigger was turned away while its stage was processing
C2_Witness ==
  \E r \in Reqs :
    /\ task[r].pc = "done"
    /\ task[r].resp.status = "transcription_already_processing"
    /\ task[r].job \in DOMAIN jobs
    /\ jobs[task[r].job].TranscriptStatus = StatusProcessing

\* C3: a trigger for a completed stage returns the existing references (the
\* download URL; both transcript URLs), changes nothing and spawns no worker,
\* however often it is repeated.
C3_CompletedStageTriggerIdempotent ==
  [][\A r \in Reqs :
       (/\ Handled(r)
        /\ task'[r].job \in DOMAIN jobs
        /\ StageStatus(jobs[task'[r].job], task'[r].stage) = StatusCompleted)
       => /\ TurnedAway(r)
          /\ task'[r].resp.code = 200
          /\ IF task'[r].stage = "extraction"
             THEN task'[r].resp.download_url = DownloadURL(task'[r].job)
             ELSE /\ task'[r].resp.transcript_txt_url
                       = TranscriptTXTURL(task'[r].job)
                  /\ task'[r].resp.transcript_srt_url
                       = TranscriptSRTURL(task'[r].job)]_vars

\* the extraction trigger was repeated twice on a completed extraction
C3_Witness ==
  \E r, q \in Reqs :
    /\ r < q
    /\ task[r].resp = ExtractionAlreadyCompleted("j1")
    /\ task[q].resp = ExtractionAlreadyCompleted("j1")
    /\ task[r].stage = "extraction"
    /\ task[q].stage = "extraction"

\* C4: startTranscription on a job whose extraction is not completed answers
\* with a conflict, spawns no worker, broadcasts nothing and changes nothing;
\* right after the upload the transcription stage stays not_started.
C4_TranscriptionBeforeExtractionConflict ==
  [][\A r \in Reqs :
       (/\ Handled(r)
        /\ task'[r].stage = "transcription"
        /\ task'[r].job \in DOMAIN jobs
        /\ jobs[task'[r].job].Status # StatusCompleted)
       => /\ TurnedAway(r)
          /\ task'[r].resp.code = 409
          /\ (jobs[task'[r].job].Status = StatusUploaded
                => jobs'[task'[r].job].TranscriptStatus = StatusNotStarted)]_vars

\* a transcription trigger right after the upload was answered with a conflict
C4_Witness ==
  \E r \in Reqs :
    /\ task[r].stage = "transcription"
    /\ task[r].resp.code = 409
    /\ task[r].job \in DOMAIN jobs
    /\ jobs[task[r].job].Status = StatusUploaded
    /\ jobs[task[r].job].TranscriptStatus = StatusNotStarted

\* C5: the first event a new observer receives is the snapshot, and the
\* snapshot is the registry state of the job at the moment the observer is
\* registered, whatever the workers do while it attaches.
C5_FirstEventIsSnapshotAtRegistration ==
  [][\A c \in Conns :
       /\ (conn[c].pc = "upgraded" /\ conn'[c].pc = "registered")
            => /\ conn[c].job \in DOMAIN jobs
               /\ conn[c].snap
                    = currentProgressEvent(conn[c].job, jobs[conn[c].job])
       /\ (conn[c].pc = "registered" /\ conn'[c].pc = "reading")
            => conn[c].inbox = <<>>]_vars

\* C6: a broadcast never waits on a subscriber that stopped consuming while
\* other subscribers of the job have not been served yet.
C6_StalledSubscriberDoesNotDelay ==
  \A r \in Reqs :
    (task[r].pc = "bc_write" /\ WriteBlocks(Head(task[r].conns)))
      => Len(task[r].conns) = 1

\* the age of a job at the time the running sweep took its cutoff
SweepAge(job) == (reaper.cutoff + reaper.ttl) - job.UpdatedAt

\* the critical section of a sweep, and the removal of files, leave the jobs
\* that stay in the registry and their files as they were
SweepKeeps(id) ==
  /\ jobs'[id] = jobs[id]
  /\ OldJob(id, jobs[id]).paths \cap files \subseteq files'

\* C7 as stated: a sweep removes exactly the jobs of age >= TTL.
C7_RemovesAgeAtLeastTTL ==
  [][(reaper.pc = "scan" /\ reaper'.pc # "scan")
       => \A id \in DOMAIN jobs :
            IF SweepAge(jobs[id]) >= reaper.ttl
            THEN id \notin DOMAIN jobs'
            ELSE id \in DOMAIN jobs' /\ SweepKeeps(id)]_vars

\* C7, amended: a sweep removes exactly the jobs whose updated_at is strictly
\* before (time of the sweep - TTL), i.e. of age > TTL; a job of age TTL or
\* younger stays, and no step of the sweep touches it or its files.
C7_RemovesOlderThanTTL ==
  [][/\ (reaper.pc = "scan" /\ reaper'.pc # "scan")
          => \A id \in DOMAIN jobs :
               IF SweepAge(jobs[id]) > reaper.ttl
               THEN id \notin DOMAIN jobs'
               ELSE id \in DOMAIN jobs' /\ SweepKeeps(id)
     /\ reaper.pc = "remove"
          => \A id \in DOMAIN jobs : id \in DOMAIN jobs' /\ SweepKeeps(id)]_vars

\* a sweep removed j1 and kept j2, whose age was the TTL exactly
C7_Witness ==
  /\ reaper.pc = "remove"
  /\ "j1" \in ids \ DOMAIN jobs
  /\ "j2" \in DOMAIN jobs
  /\ SweepAge(jobs["j2"]) = reaper.ttl
  /\ InputPath("j2") \in files

\* the files a job can own
JobFiles(id) == {InputPath(id), OutputPathOf(id), TXTPathOf(id), SRTPathOf(id)}

\* the job was removed by a sweep that has finished with it
Reaped(id) ==
  /\ id \in ids \ DOMAIN jobs
  /\ \A o \in reaper.oldJobs : o.ID # id

\* C8: once a sweep has removed a job, none of its files exists, however the
\* sweep interleaves with the workers of the job.
C8_NoFilesAfterSweep ==
  \A id \in JobIds : Reaped(id) => JobFiles(id) \cap files = {}

\* C9: while the sweeps run, getJob returns no job older than the TTL.
C9_LookupNeverReturnsExpired ==
  reaper.pc \in {"wait", "scan", "remove"}
    => \A id \in JobIds :
         getJob(id).ok => now - getJob(id).job.UpdatedAt <= reaper.ttl

\* C10: when the deadline of an extraction has expired and ffmpeg was killed,
\* the job becomes failed with the context error, and the event carries no
\* download URL.
C10_DeadlineIsCancellationKind ==
  [][\A r \in Reqs :
       (/\ task[r].pc = "x_wait"
        /\ task[r].proc = "killed"
        /\ task[r].ctxErr # NoError
        /\ task'[r].pc # "x_wait")
       => /\ jobs'[task[r].job].Status = StatusFailed
          /\ jobs'[task[r].job].Error = task[r].ctxErr
          /\ task'[r].evt.DownloadURL = ""]_vars

\* the percentages an event or the registry may carry
Percentages == 0..100

\* C11: the extraction and transcription progress in the registry, the
\* progress of every event handed to broadcast and of every snapshot event
\* lie in [0,100], whatever elapsed time ffmpeg reports.
C11_ProgressWithinRange ==
  /\ \A id \in DOMAIN jobs :
       /\ jobs[id].Progress \in Percentages
       /\ jobs[id].TranscriptProgress \in Percentages
       /\ currentProgressEvent(id, jobs[id]).Progress \in Percentages
  /\ \A r \in Reqs : task[r].evt.Progress \in Percentages

\* the ticker has fired with the progress at its cap: 96 was kept
C11_Witness ==
  \E r \in Reqs :
    /\ task[r].lines = ManyTicks
    /\ task[r].progress = 96
    /\ task[r].evt.Progress = 96
    /\ jobs[task[r].job].TranscriptProgress = 96
    /\ jobs[task[r].job].Progress = 100

\* the progress of a stage of a job
StageProgress(job, stage) ==
  IF stage = "extraction" THEN job.Progress ELSE job.TranscriptProgress

C13_ProcessingOnlyFromQueued ==
  [][\A id \in DOMAIN jobs \cap DOMAIN jobs', s \in Stages :
       StageStatus(jobs'[id], s) = StatusProcessing
         => StageStatus(jobs[id], s) \in {StatusQueued, StatusProcessing}]_vars

\* both stages of a job have been through queued and processing, the
\* transcription being in processing now
C13_Witness ==
  \E r \in Reqs :
    /\ task[r].stage = "transcription"
    /\ task[r].pc = "t_select"
    /\ jobs[task[r].job].Status = StatusCompleted
    /\ jobs[task[r].job].TranscriptStatus = StatusProcessing

\* C14: a stage enters completed or failed only from processing.
C14_TerminalOnlyFromProcessing ==
  [][\A id \in DOMAIN jobs \cap DOMAIN jobs', s \in Stages :
       (/\ StageStatus(jobs'[id], s) \in {StatusCompleted, StatusFailed}
        /\ StageStatus(jobs'[id], s) # StageStatus(jobs[id], s))
         => StageStatus(jobs[id], s) = StatusProcessing]_vars

\* the error of a stage of a job
StageError(job, stage) ==
  IF stage = "extraction" THEN job.Error ELSE job.TranscriptError

\* the other stage
OtherStage(stage) ==
  IF stage = "extraction" THEN "transcription" ELSE "extraction"

\* the worker of request r takes its failure path in this step
Fails(r) ==
  /\ Working(task[r])
  /\ task'[r].evt.Status = StatusFailed
  /\ task'[r].evt # task[r].evt

\* C15: when a run ends with an error, the registry gets failed and the
\* non-empty error text for the stage, the failed event that is broadcast
\* next carries the same text, and the other stage keeps its status,
\* progress and error.
C15_FailureRecordedAndBroadcast ==
  [][\A r \in Reqs :
       Fails(r)
         => /\ task'[r].evt.Error # NoError
            /\ task'[r].evt.Stage = task[r].stage
            /\ task'[r].pc = "bc_snapshot"
            /\ task'[r].ret = "done"
            /\ task[r].job \in DOMAIN jobs
                 => LET old == jobs[task[r].job]
                        new == jobs'[task[r].job]
                        o == OtherStage(task[r].stage)
                    IN /\ StageStatus(new, task[r].stage) = StatusFailed
                       /\ StageError(new, task[r].stage) = task'[r].evt.Error
                       /\ StageStatus(new, o) = StageStatus(old, o)
                       /\ StageProgress(new, o) = StageProgress(old, o)
                       /\ StageError(new, o) = StageError(old, o)]_vars

\* a transcription failed on a missing artifact while its extraction stays
\* completed
C15_Witness ==
  \E r \in Reqs :
    /\ task[r].stage = "transcription"
    /\ task[r].ret = "done"
    /\ task[r].evt.Status = StatusFailed
    /\ task[r].evt.Error = <<"transcricao SRT nao foi gerada">>
    /\ jobs[task[r].job].TranscriptStatus = StatusFailed
    /\ jobs[task[r].job].TranscriptError = task[r].evt.Error
    /\ jobs[task[r].job].Status = StatusCompleted

\* what the first trigger of a stage makes of a fresh job
FirstTrigger(stage) ==
  IF stage = "extraction" THEN ExtractionQueued(NewJob(0), 0)
  ELSE TranscriptionQueued(NewJob(0), 0)

\* C16: a trigger on a failed stage is accepted like a first trigger: the
\* stage is queued, its error is empty and its progress is what a first
\* trigger writes; the request goes on to spawn one worker and no other task
\* is touched.
C16_RetriggerAfterFailureResets ==
  [][\A r \in Reqs :
       (/\ Handled(r)
        /\ task'[r].job \in DOMAIN jobs
        /\ StageStatus(jobs[task'[r].job], task'[r].stage) = StatusFailed)
         => LET s == task'[r].stage
                new == jobs'[task'[r].job]
            IN /\ StageStatus(new, s) = StatusQueued
               /\ StageStatus(new, s) = StageStatus(FirstTrigger(s), s)
               /\ StageError(new, s) = NoError
               /\ StageProgress(new, s) = StageProgress(FirstTrigger(s), s)
               /\ task'[r].pc = "bc_snapshot"
               /\ task'[r].ret = "spawn"
               /\ task'[r].evt.Status = StatusQueued
               /\ task'[r].evt.Error = NoError
               /\ \A q \in Reqs \ {r} : task'[q] = task[q]]_vars

\* the run of request r failed and the next trigger of the stage was accepted
C16_Witness ==
  \E r, q \in Reqs :
    /\ r < q
    /\ task[r].stage = "extraction"
    /\ task[r].pc = "done"
    /\ task[r].resp.status = "started"
    /\ task[q].stage = "extraction"
    /\ task[q].ret = "spawn"
    /\ jobs[task[q].job].Status = StatusQueued
    /\ jobs[task[q].job].Error = NoError
    /\ jobs[task[q].job].Progress = 1

\* C17: a failed stage keeps its status and its error text in every step
\* that does not handle a trigger request for that stage of that job.
C17_FailedStaysFailedUntilTrigger ==
  [][\A id \in DOMAIN jobs \cap DOMAIN jobs', s \in Stages :
       (/\ StageStatus(jobs[id], s) = StatusFailed
        /\ \/ StageStatus(jobs'[id], s) # StatusFailed
           \/ StageError(jobs'[id], s) # StageError(jobs[id], s))
         => \E r \in Reqs : /\ Handled(r)
                            /\ task'[r].job = id
                            /\ task'[r].stage = s]_vars

\* a failed extraction that a later sweep has looked at and left as it was
C17_Witness ==
  \E id \in DOMAIN jobs :
    /\ jobs[id].Status = StatusFailed
    /\ jobs[id].Error # NoError
    /\ reaper.pc = "wait"
    /\ reaper.cutoff + reaper.ttl > jobs[id].UpdatedAt
    /\ \A r \in Reqs : task[r].pc \in {"new", "done"}

\* an event is written to a connection in this step: by broadcast, or by
\* jobWS as the snapshot
Delivers ==
  \/ \E r \in Reqs : /\ task[r].pc = "bc_write"
                     /\ task'[r] # task[r]
                     /\ task'[r].pc # "bc_evict"
  \/ \E c \in Conns : conn[c].pc = "registered" /\ conn'[c].pc = "reading"
  \/ \E c \in Conns : conn'[c].inbox \notin {conn[c].inbox, <<>>}

\* C18: a step that writes an event to a connection is no step of a critical
\* section of a.mu: it reads and changes nothing of what a.mu guards (the
\* jobs and the subscriber sets), whoever the broadcast was called by.
C18_NoDeliveryUnderLock ==
  [][Delivers => /\ jobs' = jobs
                 /\ subs' = subs
                 /\ \A r \in Reqs :
                      task'[r] # task[r] => task[r].pc = "bc_write"]_vars

\* the failed event of a worker has been written to a subscriber (the
\* snapshot of a failed extraction would carry the progress of the job)
C18_Witness ==
  \E c \in Conns :
    /\ conn[c].pc = "reading"
    /\ c \in subs[conn[c].job]
    /\ conn[c].inbox # <<>>
    /\ conn[c].inbox[Len(conn[c].inbox)].Status = StatusFailed
    /\ conn[c].inbox[Len(conn[c].inbox)].Progress = 0
    /\ jobs[conn[c].job].Progress > 0

\* C19: when broadcast writes a completed or failed event to a subscriber,
\* the registry holds the job and reports that status for the stage.
C19_DeliveredTerminalMatchesRegistry ==
  [][\A r \in Reqs :
       (/\ task[r].pc = "bc_write"
        /\ task'[r] # task[r]
        /\ task'[r].pc # "bc_evict"
        /\ task[r].evt.Status \in {StatusCompleted, StatusFailed})
         => /\ getJob(task[r].job).ok
            /\ StageStatus(getJob(task[r].job).job, task[r].evt.Stage)
                 = task[r].evt.Status]_vars

\* C20: the copy jobWS gets from getJob is the record as the registry held
\* it at the call; no later change of the registry changes the copy, what
\* jobWS writes is built from the copy, and no step of jobWS changes the
\* registry.
C20_GetJobReturnsIndependentCopy ==
  [][\A c \in Conns :
       /\ (conn[c].pc = "new" /\ conn'[c].pc = "upgraded")
            => /\ getJob(conn'[c].job).ok
               /\ conn'[c].snap = currentProgressEvent(conn'[c].job,
                                     getJob(conn'[c].job).job)
       /\ (conn[c].pc \in {"upgraded", "registered"}
             /\ conn'[c].pc \in {"upgraded", "registered"})
            => conn'[c].snap = conn[c].snap
       /\ (conn[c].pc = "registered" /\ conn'[c].pc = "reading"
             /\ ~WriteFails(c))
            => conn'[c].inbox = Received(conn[c].inbox, conn[c].snap)
       /\ conn'[c].pc # conn[c].pc => jobs' = jobs]_vars

\* the registry has moved on while jobWS still holds its copy
C20_Witness ==
  \E c \in Conns :
    /\ conn[c].pc \in {"upgraded", "registered"}
    /\ getJob(conn[c].job).ok
    /\ conn[c].snap.Status = StatusQueued
    /\ getJob(conn[c].job).job.Status = StatusCompleted
    /\ conn[c].snap # currentProgressEvent(conn[c].job, getJob(conn[c].job).job)

\* the errors of runTranscription for a missing artifact
ArtifactMissing ==
  {<<"transcricao TXT nao foi gerada">>, <<"transcricao SRT nao foi gerada">>}

\* C21: a transcription run goes on to completed only from the check of the
\* artifacts, after whisper-cli exited with success and with both files on
\* disk; with a file missing it fails with the artifact error, its last event
\* is the failed one, and only the step after a passed check writes
\* completed.
C21_CompletedNeedsBothArtifacts ==
  [][\A r \in Reqs :
       task[r].stage = "transcription" =>
         /\ (task[r].pc = "t_stat" /\ task'[r] # task[r])
              => /\ task[r].proc = "exit0"
                 /\ IF {TXTPathOf(task[r].job), SRTPathOf(task[r].job)}
                         \subseteq files
                    THEN task'[r].pc = "t_complete"
                    ELSE /\ Fails(r)
                         /\ task'[r].evt.Error \in ArtifactMissing
                         /\ task'[r].ret = "done"
                         /\ task[r].job \in DOMAIN jobs
                              => jobs'[task[r].job].TranscriptStatus
                                   = StatusFailed
         /\ (task'[r].pc = "t_complete" /\ task[r].pc # "t_complete")
              => task[r].pc = "t_stat"
         /\ (task'[r].evt.Status = StatusCompleted
               /\ task[r].evt.Status # StatusCompleted)
              => task[r].pc = "t_complete"
         /\ (task[r].evt.Status = StatusFailed /\ task[r].ret = "done")
              => task'[r].evt \in {task[r].evt, NoEvent}
         /\ (/\ task[r].job \in DOMAIN jobs \cap DOMAIN jobs'
             /\ task'[r] # task[r]
             /\ jobs'[task[r].job].TranscriptStatus = StatusCompleted
             /\ jobs[task[r].job].TranscriptStatus # StatusCompleted)
              => task[r].pc = "t_complete"]_vars

\* whisper-cli exited with success without its text file, and the run failed
C21_Witness ==
  \E r \in Reqs :
    /\ task[r].stage = "transcription"
    /\ task[r].proc = "exit0"
    /\ task[r].ret = "done"
    /\ task[r].evt.Status = StatusFailed
    /\ task[r].evt.Error = <<"transcricao TXT nao foi gerada">>
    /\ SRTPathOf(task[r].job) \in files
    /\ TXTPathOf(task[r].job) \notin files
    /\ jobs[task[r].job].TranscriptStatus = StatusFailed

\* the event carries no URL of a stage that the record does not hold as
\* completed
URLsOnlyOfCompleted(evt, found, job) ==
  /\ evt.DownloadURL # "" => (found /\ job.Status = StatusCompleted)
  /\ evt.TranscriptTXTURL # ""
       => (found /\ job.TranscriptStatus = StatusCompleted)
  /\ evt.TranscriptSRTURL # ""
       => (found /\ job.TranscriptStatus = StatusCompleted)

\* C22: an event built by a trigger or a worker, and the snapshot event jobWS
\* writes, has a download URL only if the registry holds the extraction as
\* completed when the event is built, and transcript URLs only if it holds
\* the transcription as completed.
C22_URLsOnlyWhenStageCompleted ==
  [][/\ \A r \in Reqs :
          (task'[r].evt # task[r].evt /\ task'[r].evt # NoEvent)
            => URLsOnlyOfCompleted(task'[r].evt,
                                   task[r].job \in DOMAIN jobs',
                                   IF task[r].job \in DOMAIN jobs'
                                   THEN jobs'[task[r].job] ELSE NewJob(0))
     /\ \A c \in Conns :
          (conn[c].pc = "registered" /\ conn'[c].pc = "reading")
            => URLsOnlyOfCompleted(conn[c].snap, getJob(conn[c].job).ok,
                                   getJob(conn[c].job).job)]_vars

\* C23: the event a trigger or a worker starts to broadcast has the status,
\* the progress and the error that the registry holds for its stage after the
\* update before the broadcast, and the snapshot event of that record agrees
\* with it.
C23_PushedEventEqualsStored ==
  [][\A r \in Reqs :
       (/\ task'[r].evt # task[r].evt
        /\ task'[r].evt # NoEvent
        /\ task[r].job \in DOMAIN jobs')
         => LET evt == task'[r].evt
                job == jobs'[task[r].job]
                snap == currentProgressEvent(task[r].job, job)
            IN /\ evt.Status = StageStatus(job, evt.Stage)
               /\ evt.Progress = StageProgress(job, evt.Stage)
               /\ evt.Error = StageError(job, evt.Stage)
               /\ snap.Stage = evt.Stage
                    => /\ snap.Status = evt.Status
                       /\ snap.Progress = evt.Progress
                       /\ snap.Error = evt.Error]_vars

\* the loop of the sweep is running
LoopRunning == reaper.pc \in {"wait", "scan", "remove"}

\* C24: StartCleanupLoop starts the loop only with a positive interval and a
\* positive TTL, and never sweeps otherwise; a loop that has seen its context
\* cancelled has returned and starts no sweep; and a running loop whose
\* context is cancelled returns eventually.
C24_SweepOnlyWhenPositiveAndStopsOnCancel ==
  /\ [][/\ reaper.pc = "init" => reaper'.pc \in {"init", "wait", "off"}
        /\ (reaper.pc = "init" /\ reaper'.pc = "wait")
             => (reaper'.interval > 0 /\ reaper'.ttl > 0)
        /\ reaper.pc \in {"off", "stopped"}
             => /\ reaper'.pc = reaper.pc
                /\ DOMAIN jobs \subseteq DOMAIN jobs'
                /\ files \subseteq files'
        /\ reaper'.pc = "stopped"
             => (reaper.pc \in {"wait", "stopped"}
                   /\ reaper.ctx = "cancelled")]_vars
  /\ ((LoopRunning /\ reaper.ctx = "cancelled") ~> (reaper.pc = "stopped"))

\* the loop has returned and left an expired job in the registry
C24_Witness ==
  /\ reaper.pc = "stopped"
  /\ \E id \in DOMAIN jobs : Expired(jobs[id], now - reaper.ttl)

\* the formats and the quality tiers of the interface
SupportedFormats == {"mp3", "wav", "aac", "flac", "ogg"}
QualityTiers == {"low", "medium", "high", "original"}

\* the codec of a format
CodecOf ==
  [f \in SupportedFormats |->
     CASE f = "mp3" -> "libmp3lame" [] f = "wav" -> "pcm_s16le"
       [] f = "aac" -> "aac" [] f = "flac" -> "flac" [] f = "ogg" -> "libvorbis"]

\* the options that set a bitrate, a quality scale or a compression level
QualityFlags == {"-b:a", "-q:a", "-qscale:a", "-compression_level"}

\* the quality setting of a tier for a format other than wav
QualityOf ==
  [f \in SupportedFormats \ {"wav"} |->
     [q \in QualityTiers |->
        CASE f = "mp3" -> (CASE q = "low" -> <<"-b:a", "96k">>
                             [] q = "medium" -> <<"-b:a", "192k">>
                             [] q = "high" -> <<"-b:a", "320k">>
                             [] q = "original" -> <<"-q:a", "0">>)
          [] f = "aac" -> (CASE q = "low" -> <<"-b:a", "96k">>
                             [] q = "medium" -> <<"-b:a", "192k">>
                             [] q = "high" -> <<"-b:a", "320k">>
                             [] q = "original" -> <<"-b:a", "384k">>)
          [] f = "flac" -> (IF q \in {"low", "medium"}
                            THEN <<"-compression_level", "8">>
                            ELSE <<"-compression_level", "12">>)
          [] f = "ogg" -> (CASE q = "low" -> <<"-qscale:a", "2">>
                             [] q = "medium" -> <<"-qscale:a", "5">>
                             [] q \in {"high", "original"}
                                  -> <<"-qscale:a", "8">>)]]

StreamCopy == <<"-codec:a", "copy">>

\* the calls made so far
Called == {r \in Reqs : task[r].args # <<>>}

\* the statement as first made: with a format of the list and a tier the
\* arguments name the codec of the format and hold a quality setting; with
\* any other format they are the stream copy.
C25_EveryFormatHasQualitySetting ==
  \A r \in Called :
    IF Str(task[r].format) \in SupportedFormats
    THEN Str(task[r].quality) \in QualityTiers
           => /\ Len(task[r].args) = 6
              /\ task[r].args[3] = "-codec:a"
              /\ task[r].args[4] = CodecOf[Str(task[r].format)]
              /\ task[r].args[5] \in QualityFlags
    ELSE task[r].args = StreamCopy

\* C25: codecAndQualityArgs gives equal arguments for equal inputs, never an
\* empty list; with the format read without surrounding spaces and in lower
\* case (empty: mp3) and the quality read likewise (anything but a tier:
\* medium), a format of the list gives -f, the format, its codec and, except
\* for wav, the quality setting of the tier; any other format gives the
\* stream copy.
C25_ArgsByNormalizedFormat ==
  \A r \in Called :
    LET given == Str(ToLower(TrimSpace(task[r].format)))
        f == IF given = "" THEN "mp3" ELSE given
        tier == Str(ToLower(TrimSpace(task[r].quality)))
        q == IF tier \in QualityTiers THEN tier ELSE "medium"
    IN /\ \A o \in Called :
            (task[o].format = task[r].format
               /\ task[o].quality = task[r].quality)
              => task[o].args = task[r].args
       /\ IF f \in SupportedFormats
          THEN task[r].args =
                 <<"-f", f, "-codec:a", CodecOf[f]>> \o
                   (IF f = "wav" THEN <<>> ELSE QualityOf[f][q])
          ELSE task[r].args = StreamCopy

\* wav with the tier low, written with spaces, after ogg in upper case
C25_Witness ==
  \E r, o \in Called :
    /\ task[r].format = <<" ", "w", "a", "v", " ">>
    /\ task[r].quality = <<"l", "o", "w">>
    /\ task[r].args = <<"-f", "wav", "-codec:a", "pcm_s16le">>
    /\ task[o].format = <<"O", "g", "g", "\n">>
    /\ task[o].quality = <<"H", "I", "G", "H">>
    /\ task[o].args = <<"-f", "ogg", "-codec:a", "libvorbis", "-qscale:a", "8">>

\* the elements of a sequence
Range(q) == {q[i] : i \in 1..Len(q)}

\* the task of request r takes a step of its own
Moved(r) ==
  \/ task'[r].pc # task[r].pc
  \/ task'[r].conns # task[r].conns

\* C26: broadcast visits the subscribers registered when it began; a write
\* that fails leads to the eviction of that subscriber (removed from the set
\* of the job, connection closed) and the loop goes on with the same event
\* for the subscribers that remain; a closed connection receives nothing
\* and is never registered again.
C26_FailedDeliveryEvictsOnlyThatSubscriber ==
  [][/\ \A r \in Reqs :
          /\ (task[r].pc = "bc_snapshot" /\ task'[r].pc = "bc_write")
               => /\ Range(task'[r].conns) = subs[task[r].job]
                  /\ Len(task'[r].conns) = Cardinality(subs[task[r].job])
          /\ (task[r].pc = "bc_write" /\ Moved(r))
               => LET c == Head(task[r].conns) IN
                    IF WriteFails(c)
                    THEN /\ task'[r].pc = "bc_evict"
                         /\ task'[r].conns = task[r].conns
                         /\ conn' = conn
                    ELSE conn'[c].inbox = Received(conn[c].inbox, task[r].evt)
          /\ (task[r].pc = "bc_evict" /\ Moved(r))
               => LET c == Head(task[r].conns) IN
                    /\ subs'[task[r].job] = subs[task[r].job] \ {c}
                    /\ conn'[c].link = "closed"
                    /\ \A o \in Conns \ {c} : conn'[o] = conn[o]
                    /\ Len(task[r].conns) > 1
                         => /\ task'[r].pc = "bc_write"
                            /\ task'[r].conns = Tail(task[r].conns)
                            /\ task'[r].evt = task[r].evt
     /\ \A c \in Conns :
          conn[c].link = "closed"
            => /\ conn'[c].link = "closed"
               /\ conn'[c].inbox \in {conn[c].inbox, <<>>}
               /\ \A id \in JobIds : c \in subs'[id] => c \in subs[id]]_vars

\* one subscriber has been evicted while its handler still reads, and the
\* broadcast stands at the write to the other one
C26_Witness ==
  \E r \in Reqs, c, o \in Conns :
    /\ c # o
    /\ task[r].pc = "bc_write"
    /\ task[r].conns = <<o>>
    /\ task[r].evt.Status = StatusProcessing
    /\ conn[o].link = "open"
    /\ o \in subs[task[r].job]
    /\ conn[c].pc = "reading"
    /\ conn[c].link = "closed"
    /\ c \notin subs[task[r].job]

\* C27: when the context of a transcription is done and whisper-cli was
\* killed, the run fails with the context error, whichever case the select
\* of TranscribeAudio takes.
C27_KilledTranscriberReturnsContextError ==
  [][\A r \in Reqs :
       (/\ task[r].pc = "t_select"
        /\ task[r].proc = "killed"
        /\ task[r].ctxErr # NoError
        /\ Fails(r))
         => task'[r].evt.Error = task[r].ctxErr]_vars

\* the callback of the worker of request r is called in this step
CallbackCalled(r) ==
  /\ task'[r].evt # task[r].evt
  /\ task'[r].evt.Status = StatusProcessing

\* C28: the probe never fails the extraction: after it the callback has been
\* called with the initial value and ffmpeg is started next; when the probe
\* gave no duration, a line with the elapsed time calls no callback, and
\* every later call of the callback is with 100.
C28_ProbeFailureGivesCoarseProgress ==
  [][\A r \in Reqs :
       /\ (task[r].pc = "x_probe" /\ Moved(r))
            => /\ CallbackCalled(r)
               /\ task'[r].evt.Progress = AtLeastOne(0)
               /\ task'[r].ret = "x_start"
       /\ (task[r].pc \in {"x_scan", "x_wait"} /\ task[r].duration = 0)
            => /\ CallbackCalled(r) => task'[r].evt.Progress = 100
               /\ task'[r].lines # task[r].lines
                    => (jobs' = jobs /\ task'[r].evt = task[r].evt)]_vars

\* a run without a probed duration has read an elapsed time and completed
C28_Witness ==
  \E r \in Reqs :
    /\ task[r].stage = "extraction"
    /\ task[r].duration = 0
    /\ task[r].lines > 0
    /\ task[r].ret = "done"
    /\ task[r].evt.Status = StatusCompleted
    /\ jobs[task[r].job].Status = StatusCompleted
    /\ jobs[task[r].job].Progress = 100

\* C29: TranscribeAudio calls the callback with 1 before it starts
\* whisper-cli; each tick calls it with the counter, which does not fall,
\* is at most 96 and is not below what the registry held; a callback with 100
\* is made only after whisper-cli exited with success.
C29_TickerProgressBelowCompletion ==
  [][\A r \in Reqs :
       task[r].stage = "transcription" =>
         /\ (task[r].pc = "t_begin" /\ Moved(r) /\ ~Fails(r))
              => /\ CallbackCalled(r)
                 /\ task'[r].evt.Progress = 1
         /\ (task[r].pc = "t_select" /\ task'[r].lines = task[r].lines + 1)
              => /\ CallbackCalled(r)
                 /\ task'[r].evt.Progress = task'[r].progress
                 /\ task'[r].progress >= task[r].progress
                 /\ task'[r].progress <= 96
                 /\ task'[r].progress < 100
                 /\ task[r].job \in DOMAIN jobs
                      => jobs[task[r].job].TranscriptProgress
                           <= task'[r].evt.Progress
         /\ (CallbackCalled(r) /\ task'[r].evt.Progress = 100)
              => (task[r].pc = "t_select" /\ task[r].proc = "exit0")]_vars

\* after thirteen ticks and more the counter stands at 96 and whisper-cli has
\* exited with success: the callback is called with 100
C29_Witness ==
  \E r \in Reqs :
    /\ task[r].stage = "transcription"
    /\ task[r].lines >= 13
    /\ task[r].progress = 96
    /\ task[r].proc = "exit0"
    /\ task[r].ret = "t_stat"
    /\ task[r].evt.Status = StatusProcessing
    /\ task[r].evt.Progress = 100

\* floor(100 * min(max(elapsed / total, 0), 1)) of whole seconds
FloorPercent(elapsed, total) ==
  IF elapsed <= 0 THEN 0
  ELSE IF elapsed >= total THEN 100
  ELSE (100 * elapsed) \div total

\* C30: with a probed duration above 0, the callback called for a line with
\* the elapsed time gets floor(100 * min(max(elapsed / total, 0), 1)); the
\* callback called for the line progress=end gets 100.
C30_PercentIsExactFloor ==
  \A r \in Reqs :
    /\ (task[r].currentSeconds # <<>> /\ task[r].duration > 0)
         => task[r].percent =
              <<FloorPercent(task[r].currentSeconds[1], task[r].duration)>>
    /\ (task[r].proc = "ending" /\ task[r].ret = "x_scan")
         => task[r].percent = <<100>>

\* C31: each line with the elapsed time sets the progress of the registry
\* record and of the broadcast event to the percent computed from that line
\* alone: a line with a lower time than an earlier one lowers both.
C31_ProgressFollowsEachMarker ==
  [][\A r \in Reqs :
       (task[r].pc = "x_scan" /\ task'[r].currentSeconds # <<>>)
         => LET percent == AtLeastOne(task'[r].percent[1])
                id == task[r].job IN
              /\ task'[r].evt.Status = StatusProcessing
              /\ task'[r].evt.Progress = percent
              /\ id \in DOMAIN jobs
                   => /\ jobs'[id].Progress = percent
                      /\ percent < jobs[id].Progress
                           => jobs'[id].Progress < jobs[id].Progress]_vars

\* the one run reported 50 to the connection and then read a line with 29
\* seconds: the registry and the event to deliver next hold 28
C31_Witness ==
  \E r \in Reqs :
    /\ task[r].stage = "extraction"
    /\ task[r].lines = 2
    /\ task[r].currentSeconds = <<29>>
    /\ task[r].pc = "bc_write"
    /\ task[r].evt.Progress = 28
    /\ jobs[task[r].job].Progress = 28
    /\ Len(conn["c1"].inbox) = 1
    /\ conn["c1"].inbox[1].Status = StatusProcessing
    /\ conn["c1"].inbox[1].Progress = 50

\* a transcription of the job has been asked for and not been reset
TranscriptionKnown(job) == job.TranscriptStatus # StatusNotStarted

\* C32: a job whose transcription status is not not_started has a completed
\* extraction; an extraction trigger that is accepted finds the
\* transcription not_started, so its reset discards nothing.
C32_TranscriptionOnlyOverCompletedExtraction ==
  /\ [](\A id \in DOMAIN jobs :
          TranscriptionKnown(jobs[id]) => jobs[id].Status = StatusCompleted)
  /\ [][\A r \in Reqs :
          (Handled(r) /\ task'[r].stage = "extraction" /\ jobs' # jobs)
            => /\ ~TranscriptionKnown(jobs[task'[r].job])
               /\ jobs[task'[r].job].TranscriptTXTPath = ""
               /\ jobs[task'[r].job].TranscriptSRTPath = ""]_vars

\* an extraction trigger was turned away while the transcription of the job
\* was running over the completed extraction
C32_Witness ==
  \E r \in Reqs :
    /\ task[r].stage = "extraction"
    /\ task[r].pc = "done"
    /\ task[r].resp.status = "already_completed"
    /\ task[r].job \in DOMAIN jobs
    /\ jobs[task[r].job].TranscriptStatus = StatusProcessing
    /\ jobs[task[r].job].Status = StatusCompleted

\* C33: while a job is in the registry, a completed stage keeps its status,
\* its progress and its artifact paths through every step: a trigger, a
\* progress callback or any other step of a worker.
C33_CompletedIsAbsorbing ==
  [][\A id \in DOMAIN jobs \cap DOMAIN jobs' :
       /\ jobs[id].Status = StatusCompleted
            => /\ jobs'[id].Status = StatusCompleted
               /\ jobs'[id].Progress = jobs[id].Progress
               /\ jobs'[id].OutputPath = jobs[id].OutputPath
       /\ jobs[id].TranscriptStatus = StatusCompleted
            => /\ jobs'[id].TranscriptStatus = StatusCompleted
               /\ jobs'[id].TranscriptProgress = jobs[id].TranscriptProgress
               /\ jobs'[id].TranscriptTXTPath = jobs[id].TranscriptTXTPath
               /\ jobs'[id].TranscriptSRTPath = jobs[id].TranscriptSRTPath]_vars

\* both stages are completed and a third trigger, of the extraction, was
\* answered without a change of the record
C33_Witness ==
  \E r \in Reqs :
    /\ r = MaxTriggers
    /\ task[r].stage = "extraction"
    /\ task[r].resp.status = "already_completed"
    /\ task[r].job \in DOMAIN jobs
    /\ jobs[task[r].job].Status = StatusCompleted
    /\ jobs[task[r].job].Progress = 100
    /\ jobs[task[r].job].TranscriptStatus = StatusCompleted
    /\ jobs[task[r].job].TranscriptProgress = 100
    /\ jobs[task[r].job].TranscriptTXTPath # ""

\* the stage of the job has ended, or the job is gone
Ended(id, stage) ==
  \/ id \notin DOMAIN jobs
  \/ StageStatus(jobs[id], stage) \in {StatusCompleted, StatusFailed}

GotTerminal(c) ==
  \E i \in 1..Len(conn[c].inbox) :
    conn[c].inbox[i].Status \in {StatusCompleted, StatusFailed}

\* C35: a connection whose handler read the job while a stage was queued or
\* processing, and whose client stays connected and reading, is later
\* written an event with the status completed or failed.
C35_AttachedObserverGetsTerminal ==
  \A c \in Conns :
    (/\ conn[c].pc = "upgraded"
     /\ conn[c].snap.Status \in {StatusQueued, StatusProcessing})
      ~> (conn[c].link # "open" \/ GotTerminal(c))

\* C36: the events written to a connection follow the order of the registry
\* changes they report: no event of a run is written after an event, pushed
\* or snapshot, that reports a newer run.
C36_EventsInRegistryOrder ==
  [][\A c \in Conns :
       (conn'[c].runs # conn[c].runs /\ conn'[c].runs # <<>>)
         => \A i \in 1..Len(conn[c].runs) :
              conn[c].runs[i] <= conn'[c].runs[Len(conn'[c].runs)]]_vars

\* request r writes its event to connection c in this step
Writes(r, c) ==
  /\ task[r].pc = "bc_write"
  /\ Head(task[r].conns) = c
  /\ Moved(r)
  /\ task'[r].pc # "bc_evict"

\* the statuses of the events of a worker
WorkerStatuses == {StatusProcessing, StatusCompleted, StatusFailed}

\* C37: the trigger hands the queued event to every subscriber of the job
\* before it starts the worker: its broadcast takes all subscribers, writes
\* the queued event to each (or evicts it) and returns only after the last,
\* and the worker is started after that; so no connection is written the
\* queued event of a run after a processing, completed or failed event of
\* that run.
C37_QueuedBeforeWorkerEvents ==
  [][\A r \in Reqs :
       /\ (task[r].pc = "bc_snapshot" /\ task[r].ret = "spawn" /\ Moved(r))
            => /\ task[r].evt.Status = StatusQueued
               /\ Range(task'[r].conns) = subs[task[r].job]
                    \/ (subs[task[r].job] = {} /\ task'[r].pc = "spawn")
       /\ \A c \in Conns :
            (Writes(r, c) /\ task[r].ret = "spawn")
              => /\ conn'[c].inbox[Len(conn'[c].inbox)] = task[r].evt
                 /\ conn'[c].runs[Len(conn'[c].runs)] = r
                 /\ \A i \in 1..Len(conn[c].inbox) :
                      conn[c].runs[i] = r
                        => conn[c].inbox[i].Status \notin WorkerStatuses
       /\ (task[r].pc # "spawn" /\ task'[r].pc = "spawn")
            => /\ task[r].ret = "spawn"
               /\ Len(task[r].conns) <= 1
       /\ (task'[r].evt # task[r].evt
              /\ task'[r].evt.Status \in WorkerStatuses)
            => (task[r].ret # "spawn" /\ task[r].pc \notin {"new", "spawn"})
     ]_vars

\* both connections hold the queued event of the run and the worker is about
\* to be started
C37_Witness ==
  \E r \in Reqs :
    /\ task[r].pc = "spawn"
    /\ \A c \in Conns :
         /\ c \in subs[task[r].job]
         /\ conn[c].runs = <<r>>
         /\ conn[c].inbox[1].Status = StatusQueued
         /\ conn[c].pc = "reading"

\* a stage of the job is queued or processing
Active(job) ==
  \/ job.Status \in {StatusQueued, StatusProcessing}
  \/ job.TranscriptStatus \in {StatusQueued, StatusProcessing}

\* C38: a job that leaves the registry has no stage that is queued or
\* processing, whatever the interval, the TTL and the times of the updates.
C38_ReaperSparesActiveJobs ==
  [][\A id \in DOMAIN jobs \ DOMAIN jobs' : ~Active(jobs[id])]_vars

\* the job was in the registry and the sweep has removed it
Swept(id) == id \in ids /\ id \notin DOMAIN jobs

\* C39: a job the sweep has removed has no subscriber in a.subs, and no
\* event of it is written to a connection any more, by a broadcast or as a
\* snapshot.
C39_NothingForReapedJobs ==
  /\ [](\A id \in JobIds : Swept(id) => subs[id] = {})
  /\ [][\A c \in Conns :
          (conn'[c].runs # conn[c].runs /\ conn'[c].runs # <<>>)
            => ~Swept(conn'[c].inbox[Len(conn'[c].inbox)].ID)]_vars

====
